---- MODULE Spec2Model ----
(***************************************************************************)
(* The control loop of langgraph_workflow.py: the LangGraph state graph    *)
(* built by execute_workflow, its five nodes (delegator_logic, the three   *)
(* executor nodes, conflict_resolver) and the routing functions between    *)
(* them.  Python strings are sequences of one-character strings, so that   *)
(* the substring tests, upper()/lower() and the concatenations of the code *)
(* are computed as the code computes them.  A Python dict is a function    *)
(* whose DOMAIN is the set of keys that are present.                       *)
(*                                                                         *)
(* Spec follows a run of the graph; FairSpec is Spec with the graph always *)
(* running the scheduled node.  The functions that a run exercises on few  *)
(* inputs only are followed on their own: resolution_flow (FlowSpec),      *)
(* semantic_search within conflict_resolver (SearchSpec), delegator_logic  *)
(* called twice (RouterSpec), the executors' classification of a response  *)
(* (ClassifySpec), run_workflow of api.py (ApiSpec), GCPSource of          *)
(* gcs_source.py (GcsSpec) and BigQuerySource of bigquery_source.py        *)
(* (BigQuerySpec).                                                         *)
(***************************************************************************)
EXTENDS Integers, Sequences, FiniteSets, TLC

VARIABLES
    state,              \* the State dict held in the graph's channels
    node,               \* the node the graph runs next, "END" or "ABORT"
    prev_node,          \* the node that ran last ("START" before the first)
    executor_response,  \* response text of the last executor invoke
    model_reply,        \* what model.invoke gave the node that ran last
    dispatch_failed,    \* the last executor dispatch took its failure branch
    resolver_entries,   \* conflict_resolver runs since the last dispatch
    similarities,       \* cosine similarity of each executor output to the query
    search,             \* what semantic_search did in the node that ran last
    stand_in,           \* the deterministic stand-in that answers for the model
    decisions,          \* what each call of delegator_logic on a copy returned
    call,               \* the function called from outside the graph, its arguments
    world,              \* local files, blobs of the bucket, BigQuery datasets and tables
    client_calls,       \* the calls made to the Google client libraries, in order
    returned            \* what the called function returned or raised

vars == <<state, node, prev_node, executor_response, model_reply,
          dispatch_failed, resolver_entries, similarities, search,
          stand_in, decisions, call, world, client_calls, returned>>

\* semantic_search is followed in SearchSpec only: what it returns goes into
\* the resolver's prompt and nowhere else
search_vars == <<similarities, search>>

\* delegator_logic is called twice on copies of one State in RouterSpec only
router_vars == <<stand_in, decisions>>

\* the endpoint of api.py and the source classes are called from outside the
\* graph: they are followed in ApiSpec, GcsSpec and BigQuerySpec
tool_vars == <<call, world, client_calls, returned>>

NoCall == [function |-> "none"]

NoWorld == [files |-> {}, blobs |-> {}, datasets |-> {}]

NotReturned == [kind |-> "none"]

----------------------------------------------------------------------------
(* Bounds of the model *)

MaxDone == 2

MaxEntries == 3

MaxFragments == 2

----------------------------------------------------------------------------
(* String constants of the source *)

sEND == <<"E","N","D">>
s_connector == <<"c","o","n","n","e","c","t","o","r">>
s_transformer == <<"t","r","a","n","s","f","o","r","m","e","r">>
s_bigquery == <<"b","i","g","q","u","e","r","y">>
s_connector_agent == <<"c","o","n","n","e","c","t","o","r","_","a","g","e","n","t">>
s_smart_transformer_agent == <<"s","m","a","r","t","_","t","r","a","n","s","f","o","r","m","e","r","_","a","g","e","n","t">>
s_bigquery_agent == <<"b","i","g","q","u","e","r","y","_","a","g","e","n","t">>
s_conflict_resolver == <<"c","o","n","f","l","i","c","t","_","r","e","s","o","l","v","e","r">>
s_ERROR == <<"E","R","R","O","R">>
s_resolve_prefix == <<"R","e","s","o","l","v","e"," ","t","h","e"," ","e","r","r","o","r"," ",":"," ">>
s_with_parameters == <<" ","w","i","t","h"," ","p","a","r","a","m","e","t","e","r","s"," ">>
s_forced_end_task == <<"E","n","d"," ","t","h","e"," ","w","o","r","k","f","l","o","w"," ","a","s"," ","t","h","e"," ","c","o","n","f","l","i","c","t"," ","c","o","u","l","d"," ","n","o","t"," ","b","e"," ","r","e","s","o","l","v","e","d">>
s_connector_prefix == <<"c","o","n","n","e","c","t","o","r","_","a","g","e","n","t",":">>
s_transformer_prefix == <<"s","m","a","r","t","_","t","r","a","n","s","f","o","r","m","e","r","_","a","g","e","n","t">>
s_bigquery_prefix == <<"b","i","g","q","u","e","r","y","_","a","g","e","n","t",":">>

----------------------------------------------------------------------------
(* Python string and dict operations *)

LowerChars == <<"a","b","c","d","e","f","g","h","i","j","k","l","m","n","o","p","q","r","s","t","u","v","w","x","y","z">>

UpperChars == <<"A","B","C","D","E","F","G","H","I","J","K","L","M","N","O","P","Q","R","S","T","U","V","W","X","Y","Z">>

upper_char(c) ==
    IF \E k \in 1..26 : LowerChars[k] = c
    THEN UpperChars[CHOOSE k \in 1..26 : LowerChars[k] = c]
    ELSE c

lower_char(c) ==
    IF \E k \in 1..26 : UpperChars[k] = c
    THEN LowerChars[CHOOSE k \in 1..26 : UpperChars[k] = c]
    ELSE c

upper(s) == [i \in 1..Len(s) |-> upper_char(s[i])]

lower(s) == [i \in 1..Len(s) |-> lower_char(s[i])]

\* Python's `sub in s` on strings
contains(sub, s) ==
    \E i \in 0..(Len(s) - Len(sub)) : SubSeq(s, i + 1, i + Len(sub)) = sub

\* dict.get(k, default)
get(d, k, default) == IF k \in DOMAIN d THEN d[k] ELSE default

\* d[k] = v
put(d, k, v) == [x \in (DOMAIN d) \cup {k} |-> IF x = k THEN v ELSE d[x]]

\* str() of a dict of strings, given as its sequence of <<key, value>> items
RECURSIVE str_items(_)
str_items(items) ==
    IF items = <<>> THEN <<>>
    ELSE <<"'">> \o items[1][1] \o <<"'", ":", " ", "'">> \o items[1][2] \o <<"'">>
         \o (IF Len(items) > 1 THEN <<",", " ">> ELSE <<>>)
         \o str_items(Tail(items))

str(params) == <<"{">> \o str_items(params) \o <<"}">>

----------------------------------------------------------------------------
(* Inputs: the request, the replies of the language model, the executors'  *)
(* responses                                                               *)

\* stands for the request text of line 306
Requests == { <<"r","1">> }

NoDict == [none |-> TRUE]

\* model.invoke did not run in the node
NoReply == [kind |-> "none", dict |-> NoDict]

ParamsP == << << <<"f","n">>, <<"a">> >> >>

\* Replies that ast.literal_eval turns into a dict
Mappings ==
    { [agent |-> s_connector_agent, action |-> <<"g","e","t">>, parameters |-> ParamsP],
      [agent |-> s_smart_transformer_agent, action |-> <<"f","i","x">>, parameters |-> <<>>],
      [agent |-> s_bigquery_agent, action |-> <<"g","e","t">>],
      [agent |-> sEND, action |-> <<"e","n","d">>, parameters |-> <<>>],
      [agent |-> s_conflict_resolver, action |-> <<"f","i","x">>, parameters |-> <<>>],
      [agent |-> <<"c","a","l","l","_">> \o s_connector_agent, action |-> <<"g","e","t">>, parameters |-> <<>>],
      [agent |-> <<"C","o","n","n","e","c","t","o","r"," ","A","g","e","n","t">>, action |-> <<"g","e","t">>, parameters |-> <<>>],
      [agent |-> <<"e","x","t","r","a","c","t","o","r">>, action |-> <<"g","e","t">>, parameters |-> <<>>],
      [action |-> <<"g","e","t">>, parameters |-> <<>>],
      [agent |-> s_connector_agent] }

\* What model.invoke followed by ast.literal_eval can give: the call raises,
\* the text is no Python literal, the literal is no dict, or it is a dict
ModelReplies ==
    { [kind |-> "invoke_raises", dict |-> NoDict],
      [kind |-> "not_literal", dict |-> NoDict],
      [kind |-> "not_mapping", dict |-> NoDict] }
    \cup { [kind |-> "mapping", dict |-> d] : d \in Mappings }

\* semantic_search was not called
NoSearch == [outcome |-> "none", top_indices |-> <<>>, relevant_tasks |-> <<>>]

\* Response texts of an executor
ExecutorResponses ==
    { <<"o","k">>,
      <<"d","o","n","e">>,
      <<"E","R","R","O","R",":"," ","n","f">>,
      <<"n","o"," ","e","r","r","o","r","s">> }

----------------------------------------------------------------------------
(* The graph built by execute_workflow *)

ExecutorNodes ==
    {"call_connector_agent", "call_smart_transformer_agent", "call_bigquery_agent"}

\* path map of the conditional edges leaving delegator_logic
delegator_path_map ==
    { <<s_connector_agent, "call_connector_agent">>,
      <<s_smart_transformer_agent, "call_smart_transformer_agent">>,
      <<s_bigquery_agent, "call_bigquery_agent">>,
      <<s_conflict_resolver, "conflict_resolver">>,
      <<sEND, "END">> }

\* path map of the conditional edges leaving conflict_resolver
resolver_path_map ==
    { <<"delegator_logic", "delegator_logic">>,
      <<"connector_agent", "call_connector_agent">>,
      <<"bigquery_agent", "call_bigquery_agent">>,
      <<"smart_transformer_agent", "call_smart_transformer_agent">>,
      <<"END", "END">> }

\* mutant: the executors are wired to the resolver
static_edges_to_resolver(n) ==
    IF n \in ExecutorNodes THEN {"conflict_resolver"}
    ELSE IF n = "delegator_logic" THEN {"END"}
    ELSE {}

\* add_edge targets of a node
static_edges(n) ==
    IF n \in ExecutorNodes THEN {"delegator_logic"}
    ELSE IF n = "delegator_logic" THEN {"END"}
    ELSE {}

\* mutant: an edge to END ends the run whatever else is scheduled
next_node_end_wins(n, branch) ==
    IF "END" \in (branch \cup static_edges(n)) THEN "END"
    ELSE CHOOSE m \in (branch \cup static_edges(n)) : TRUE

\* The node the graph runs after n, whose conditional edges chose `branch`
\* (a set of targets): an edge to END schedules nothing, and the run ends
\* when nothing is scheduled.
next_node(n, branch) ==
    LET scheduled == (branch \cup static_edges(n)) \ {"END"}
    IN  IF scheduled = {} THEN "END" ELSE CHOOSE m \in scheduled : TRUE

\* mutant: the exception is swallowed and the node is run again
uncaught_retried(n) == n

\* An exception that leaves node n: no node and no caller of chain.invoke
\* catches it, the run aborts
uncaught(n) == "ABORT"

\* mutant: the END test of line 43 is missing
resolution_flow_no_end(st) ==
    IF contains(s_connector, lower(st["next_agent"])) THEN "connector_agent"
    ELSE IF contains(s_transformer, lower(st["next_agent"])) THEN "smart_transformer_agent"
    ELSE IF contains(s_bigquery, lower(st["next_agent"])) THEN "bigquery_agent"
    ELSE "delegator_logic"

\* mutant: the names are matched without lower()
resolution_flow_case_sensitive(st) ==
    IF st["next_agent"] = sEND THEN "END"
    ELSE IF contains(s_connector, st["next_agent"]) THEN "connector_agent"
    ELSE IF contains(s_transformer, st["next_agent"]) THEN "smart_transformer_agent"
    ELSE IF contains(s_bigquery, st["next_agent"]) THEN "bigquery_agent"
    ELSE "delegator_logic"

resolution_flow(st) ==
    IF st["next_agent"] = sEND THEN "END"
    ELSE IF contains(s_connector, lower(st["next_agent"])) THEN "connector_agent"
    ELSE IF contains(s_transformer, lower(st["next_agent"])) THEN "smart_transformer_agent"
    ELSE IF contains(s_bigquery, lower(st["next_agent"])) THEN "bigquery_agent"
    ELSE "delegator_logic"

----------------------------------------------------------------------------
(* The fields of State *)

tasks_done == state["tasks_done"]

model_responses == state["model_responses"]

next_agent == state["next_agent"]

next_task == state["next_task"]

has_error == get(state, "has_error", FALSE)

\* the empty string when the key was never set
error_details == get(state, "error_details", <<>>)

----------------------------------------------------------------------------
(* Initial state: chain.invoke({...}) in execute_workflow *)

\* mutant: the run starts with no entry in tasks_done
initial_state_no_placeholder(req) ==
    [user_request |-> req, tasks_done |-> <<>>, next_agent |-> <<>>,
     next_task |-> <<>>, model_responses |-> <<>>, has_error |-> FALSE]

initial_state(req) ==
    [user_request |-> req, tasks_done |-> << <<>> >>, next_agent |-> <<>>,
     next_task |-> <<>>, model_responses |-> <<>>, has_error |-> FALSE]

Init ==
    /\ \E req \in Requests : state = initial_state(req)
    /\ node = "delegator_logic"
    /\ prev_node = "START"
    /\ executor_response = <<>>
    /\ model_reply = NoReply
    /\ dispatch_failed = FALSE
    /\ resolver_entries = 0
    /\ similarities = <<>>
    /\ search = NoSearch
    /\ stand_in = 0
    /\ decisions = <<>>
    /\ call = NoCall
    /\ world = NoWorld
    /\ client_calls = <<>>
    /\ returned = NotReturned

----------------------------------------------------------------------------
(* delegator_logic *)

\* mutant: next_task is built without the error text
delegator_short_circuit_no_detail(st) ==
    put(put(put(st, "next_agent", s_conflict_resolver),
            "next_task", s_resolve_prefix),
        "has_error", FALSE)

\* mutant: the flag is not reset (line 125 missing)
delegator_short_circuit_no_reset(st) ==
    put(put(st, "next_agent", s_conflict_resolver),
        "next_task", s_resolve_prefix \o get(st, "error_details", <<>>))

\* lines 122-126: a failure is pending, the model is not consulted
delegator_short_circuit(st) ==
    put(put(put(st, "next_agent", s_conflict_resolver),
            "next_task", s_resolve_prefix \o get(st, "error_details", <<>>)),
        "has_error", FALSE)

\* lines 206-211: model.invoke, then ast.literal_eval of a str content
delegator_reply_raises(reply) ==
    \/ reply.kind \in {"invoke_raises", "not_literal", "not_mapping"}
    \/ /\ reply.kind = "mapping"
       /\ ("agent" \notin DOMAIN reply.dict \/ "action" \notin DOMAIN reply.dict)

\* lines 212-217
delegator_decision(st, d) ==
    put(put(st, "next_task",
            d["action"] \o s_with_parameters \o str(get(d, "parameters", <<>>))),
        "next_agent", d["agent"])

\* the conditional edges of delegator_logic: lambda state: state['next_agent']
\* looked up in the path map; a key that is not there raises KeyError
delegator_branch(st) ==
    { p[2] : p \in { q \in delegator_path_map : q[1] = st["next_agent"] } }

DelegatorShortCircuit ==
    /\ node = "delegator_logic"
    /\ get(state, "has_error", FALSE)
    /\ state' = delegator_short_circuit(state)
    /\ node' = next_node("delegator_logic", delegator_branch(state'))
    /\ prev_node' = "delegator_logic"
    /\ model_reply' = NoReply
    /\ UNCHANGED <<executor_response, dispatch_failed, resolver_entries>>
    /\ UNCHANGED search_vars
    /\ UNCHANGED router_vars
    /\ UNCHANGED tool_vars

DelegatorRaises ==
    /\ node = "delegator_logic"
    /\ ~get(state, "has_error", FALSE)
    /\ \E reply \in ModelReplies :
          /\ model_reply' = reply
          /\ \/ delegator_reply_raises(reply)
             \/ /\ ~delegator_reply_raises(reply)
                /\ delegator_branch(delegator_decision(state, reply.dict)) = {}
    /\ node' = uncaught("delegator_logic")
    /\ prev_node' = "delegator_logic"
    /\ UNCHANGED <<state, executor_response, dispatch_failed, resolver_entries>>
    /\ UNCHANGED search_vars
    /\ UNCHANGED router_vars
    /\ UNCHANGED tool_vars

DelegatorDecides ==
    /\ node = "delegator_logic"
    /\ ~get(state, "has_error", FALSE)
    /\ \E reply \in ModelReplies :
          /\ ~delegator_reply_raises(reply)
          /\ delegator_branch(delegator_decision(state, reply.dict)) # {}
          /\ model_reply' = reply
          /\ state' = delegator_decision(state, reply.dict)
    /\ node' = next_node("delegator_logic", delegator_branch(state'))
    /\ prev_node' = "delegator_logic"
    /\ UNCHANGED <<executor_response, dispatch_failed, resolver_entries>>
    /\ UNCHANGED search_vars
    /\ UNCHANGED router_vars
    /\ UNCHANGED tool_vars

----------------------------------------------------------------------------
(* The executor nodes *)

\* mutant: the response is not upper-cased before the test
is_error_case_sensitive(response) == contains(s_ERROR, response)

\* `"ERROR" in response_text.upper()`
is_error(response) == contains(s_ERROR, upper(response))

\* mutant: the failure branch forgets the response text
executor_failure_flag_only(st, response) == put(st, "has_error", TRUE)

\* mutant: the failure branch forgets the flag
executor_failure_detail_only(st, response) == put(st, "error_details", response)

\* the failure branch, the same in the three executors
executor_failure(st, response) ==
    put(put(st, "has_error", TRUE), "error_details", response)

\* mutant: the completed step is not recorded
append_task_dropped(st, key) == st

\* state["tasks_done"].append({key: state['next_task']})
append_task(st, key) ==
    put(st, "tasks_done", Append(st["tasks_done"], (key :> st["next_task"])))

\* mutant: the list is replaced by the new entry instead of appended to
append_response_replaces(st, prefix, response) ==
    put(st, "model_responses", << prefix \o response >>)

\* state['model_responses'].append(prefix + content)
append_response(st, prefix, response) ==
    put(st, "model_responses", Append(st["model_responses"], prefix \o response))

\* lines 232-234: error_details is left as it is
smart_transformer_success(st, response) ==
    append_response(append_task(st, "call_smart_transformer_agent"),
                    s_transformer_prefix, response)

\* lines 250-253
connector_success(st, response) ==
    append_response(append_task(put(st, "error_details", <<>>), "call_connector_agent"),
                    s_connector_prefix, response)

\* lines 269-272
bigquery_success(st, response) ==
    append_response(append_task(put(st, "error_details", <<>>), "bigquery_agent"),
                    s_bigquery_prefix, response)

executor_success(n, st, response) ==
    CASE n = "call_smart_transformer_agent" -> smart_transformer_success(st, response)
      [] n = "call_connector_agent" -> connector_success(st, response)
      [] n = "call_bigquery_agent" -> bigquery_success(st, response)

\* the body of an executor node once its agent has answered
executor_body(n, st, response) ==
    IF is_error(response) THEN executor_failure(st, response)
    ELSE executor_success(n, st, response)

Dispatch(n) ==
    /\ node = n
    /\ \E response \in ExecutorResponses :
          /\ is_error(response) \/ Len(state["model_responses"]) < MaxDone
          /\ executor_response' = response
          /\ state' = executor_body(n, state, response)
          /\ dispatch_failed' = is_error(response)
    /\ node' = next_node(n, {})
    /\ prev_node' = n
    /\ model_reply' = NoReply
    /\ resolver_entries' = 0
    /\ UNCHANGED search_vars
    /\ UNCHANGED router_vars
    /\ UNCHANGED tool_vars

CallSmartTransformerAgent == Dispatch("call_smart_transformer_agent")

CallConnectorAgent == Dispatch("call_connector_agent")

CallBigqueryAgent == Dispatch("call_bigquery_agent")

\* the agent's invoke raises: nothing catches it and the run aborts
ExecutorRaises ==
    /\ node \in ExecutorNodes
    /\ node' = uncaught(node)
    /\ prev_node' = node
    /\ model_reply' = NoReply
    /\ UNCHANGED <<state, executor_response, dispatch_failed, resolver_entries>>
    /\ UNCHANGED search_vars
    /\ UNCHANGED router_vars
    /\ UNCHANGED tool_vars

----------------------------------------------------------------------------
(* conflict_resolver *)

\* mutant: the test of line 58 always passes
latest_model_response_any(st) ==
    IF st["model_responses"] # <<>>
    THEN st["model_responses"][Len(st["model_responses"])]
    ELSE <<"-">>

\* line 57
latest_model_response(st) ==
    IF st["model_responses"] # <<>>
    THEN st["model_responses"][Len(st["model_responses"])]
    ELSE <<>>

\* lines 100-105 and the .get calls of 108-109: what the except clause catches
resolver_reply_raises(reply) ==
    reply.kind \in {"invoke_raises", "not_literal", "not_mapping"}

\* mutant: the resolver never proposes a corrected action, it ends the run
resolver_decision_gives_up(st, d) ==
    put(put(put(put(st, "next_agent", sEND),
                "next_task", s_forced_end_task),
            "has_error", FALSE),
        "error_details", <<>>)

\* mutant: the decision leaves error_details as it was (line 112 missing)
resolver_decision_keeps_detail(st, d) ==
    put(put(put(st, "next_agent", get(d, "agent", sEND)),
            "next_task",
            get(d, "action", <<>>) \o s_with_parameters
                \o str(get(d, "parameters", <<>>))),
        "has_error", FALSE)

\* lines 108-112
resolver_decision(st, d) ==
    put(put(put(put(st, "next_agent", get(d, "agent", sEND)),
                "next_task",
                get(d, "action", <<>>) \o s_with_parameters
                    \o str(get(d, "parameters", <<>>))),
            "has_error", FALSE),
        "error_details", <<>>)

\* mutant: the except clause does not force END
resolver_forced_end_task_only(st) == put(st, "next_task", s_forced_end_task)

\* lines 113-116
resolver_forced_end(st) ==
    put(put(st, "next_agent", sEND), "next_task", s_forced_end_task)

\* the conditional edges of conflict_resolver: resolution_flow looked up in
\* the path map
resolver_branch(st) ==
    { p[2] : p \in { q \in resolver_path_map : q[1] = resolution_flow(st) } }

count_entry(n) == IF n < MaxEntries THEN n + 1 ELSE n

\* lines 57-58, 117: no executor output yet, the state is returned as it is
ResolverSkips ==
    /\ node = "conflict_resolver"
    /\ latest_model_response(state) = <<>>
    /\ state' = state
    /\ node' = next_node("conflict_resolver", resolver_branch(state'))
    /\ prev_node' = "conflict_resolver"
    /\ model_reply' = NoReply
    /\ resolver_entries' = count_entry(resolver_entries)
    /\ UNCHANGED <<executor_response, dispatch_failed>>
    /\ UNCHANGED search_vars
    /\ UNCHANGED router_vars
    /\ UNCHANGED tool_vars

\* line 59: state['error_details'] of a state that has no such key
ResolverRaises ==
    /\ node = "conflict_resolver"
    /\ latest_model_response(state) # <<>>
    /\ "error_details" \notin DOMAIN state
    /\ node' = uncaught("conflict_resolver")
    /\ prev_node' = "conflict_resolver"
    /\ model_reply' = NoReply
    /\ resolver_entries' = count_entry(resolver_entries)
    /\ UNCHANGED <<state, executor_response, dispatch_failed>>
    /\ UNCHANGED search_vars
    /\ UNCHANGED router_vars
    /\ UNCHANGED tool_vars

ResolverResolves ==
    /\ node = "conflict_resolver"
    /\ latest_model_response(state) # <<>>
    /\ "error_details" \in DOMAIN state
    /\ \E reply \in ModelReplies :
          /\ model_reply' = reply
          /\ state' = IF resolver_reply_raises(reply)
                      THEN resolver_forced_end(state)
                      ELSE resolver_decision(state, reply.dict)
    /\ node' = next_node("conflict_resolver", resolver_branch(state'))
    /\ prev_node' = "conflict_resolver"
    /\ resolver_entries' = count_entry(resolver_entries)
    /\ UNCHANGED <<executor_response, dispatch_failed>>
    /\ UNCHANGED search_vars
    /\ UNCHANGED router_vars
    /\ UNCHANGED tool_vars

----------------------------------------------------------------------------
(* resolution_flow on its own: the conditional edge that leaves            *)
(* conflict_resolver, applied to a state whose next_agent is any name made *)
(* of at most MaxFragments fragments                                       *)

Fragments ==
    { sEND, <<"e","n","d">>, s_connector, <<"C","O","N","N","E","C","T","O","R">>,
      <<"T","r","a","n","s","f","o","r","m","e","r">>, s_bigquery,
      <<"B","i","g","Q","u","e","r","y">>, <<"c","a","l","l","_">>,
      <<"_","a","g","e","n","t">>, <<" ">> }

RECURSIVE names_of(_)
names_of(k) ==
    IF k = 0 THEN { <<>> }
    ELSE names_of(k - 1) \cup { n \o f : n \in names_of(k - 1), f \in Fragments }

AgentNames == names_of(MaxFragments)

FlowInit ==
    /\ \E req \in Requests, name \in AgentNames :
          state = put(initial_state(req), "next_agent", name)
    /\ node = "resolution_flow"
    /\ prev_node = "conflict_resolver"
    /\ executor_response = <<>>
    /\ model_reply = NoReply
    /\ dispatch_failed = FALSE
    /\ resolver_entries = 0
    /\ similarities = <<>>
    /\ search = NoSearch
    /\ stand_in = 0
    /\ decisions = <<>>
    /\ call = NoCall
    /\ world = NoWorld
    /\ client_calls = <<>>
    /\ returned = NotReturned

\* the conditional edge is taken
FlowStep ==
    /\ node = "resolution_flow"
    /\ node' = next_node("conflict_resolver", resolver_branch(state))
    /\ UNCHANGED <<state, prev_node, executor_response, model_reply,
                   dispatch_failed, resolver_entries>>
    /\ UNCHANGED search_vars
    /\ UNCHANGED router_vars
    /\ UNCHANGED tool_vars

FlowSpec == FlowInit /\ [][FlowStep]_vars

----------------------------------------------------------------------------
(* semantic_search and the resolver's call of it, on any State the         *)
(* resolver can be handed: at most MaxOutputs executor outputs, one of     *)
(* which may hold no word, each with a similarity between 0 and MaxScore   *)

MaxOutputs == 3

MaxScore == 2

\* default of the parameter top_k
top_k == 2

WordChars ==
    { LowerChars[k] : k \in 1..26 } \cup { UpperChars[k] : k \in 1..26 }
        \cup {"0","1","2","3","4","5","6","7","8","9","_"}

\* json.dumps of a string that needs no escape
json_dumps(text) == <<"\"">> \o text \o <<"\"">>

\* a token of TfidfVectorizer's default pattern: two or more word characters
has_token(text) ==
    \E i \in 1..(Len(text) - 1) : text[i] \in WordChars /\ text[i + 1] \in WordChars

\* fit_transform raises ValueError (empty vocabulary) when no text of the
\* corpus holds a token
vocabulary_empty(responses) ==
    \A i \in 1..Len(responses) : ~has_token(json_dumps(responses[i]))

\* similarities.argsort(): the indices in an order of non-decreasing
\* similarity; equal similarities may come in any order
argsorts(sims) ==
    { p \in Permutations(1..Len(sims)) :
        \A i \in 1..(Len(sims) - 1) : sims[p[i]] <= sims[p[i + 1]] }

\* seq[-k:]
last(seq, k) ==
    SubSeq(seq, IF Len(seq) > k THEN Len(seq) - k + 1 ELSE 1, Len(seq))

\* seq[::-1]
reversed(seq) == [i \in 1..Len(seq) |-> seq[Len(seq) + 1 - i]]

\* mutant: the slice is not reversed
top_indices_ascending(order, k) == last(order, k)

\* similarities.argsort()[-top_k:][::-1]
top_indices(order, k) == reversed(last(order, k))

\* what semantic_search returns, given the order argsort produced
semantic_search(order, responses, k) ==
    [outcome |-> "returned",
     top_indices |-> top_indices(order, k),
     relevant_tasks |-> [i \in 1..Len(top_indices(order, k)) |->
                            responses[top_indices(order, k)[i]]]]

SearchRaised == [outcome |-> "raised", top_indices |-> <<>>, relevant_tasks |-> <<>>]

\* an output as call_connector_agent records it, and a text without a word
Outputs ==
    { s_connector_prefix \o <<"o","k">>,
      <<"-">> }

RECURSIVE lists_of(_, _)
lists_of(S, k) ==
    IF k = 0 THEN { <<>> }
    ELSE lists_of(S, k - 1)
           \cup { Append(l, x) : l \in { m \in lists_of(S, k - 1) : Len(m) = k - 1 },
                                 x \in S }

SearchInit ==
    /\ \E req \in Requests, responses \in lists_of(Outputs, MaxOutputs) :
          /\ state = put(put(put(put(initial_state(req),
                                     "model_responses", responses),
                                 "error_details", <<"E","R","R","O","R",":"," ","n","f">>),
                             "next_agent", s_conflict_resolver),
                         "next_task",
                         s_resolve_prefix \o <<"E","R","R","O","R",":"," ","n","f">>)
          /\ similarities \in { l \in lists_of(0..MaxScore, MaxOutputs) :
                                  Len(l) = Len(responses) }
    /\ node = "conflict_resolver"
    /\ prev_node = "delegator_logic"
    /\ executor_response = <<"E","R","R","O","R",":"," ","n","f">>
    /\ model_reply = NoReply
    /\ dispatch_failed = TRUE
    /\ resolver_entries = 0
    /\ search = NoSearch
    /\ stand_in = 0
    /\ decisions = <<>>
    /\ call = NoCall
    /\ world = NoWorld
    /\ client_calls = <<>>
    /\ returned = NotReturned

\* lines 57-58, 117: nothing to search
SearchSkipped ==
    /\ node = "conflict_resolver"
    /\ latest_model_response(state) = <<>>
    /\ state' = state
    /\ node' = next_node("conflict_resolver", resolver_branch(state'))
    /\ prev_node' = "conflict_resolver"
    /\ model_reply' = NoReply
    /\ resolver_entries' = count_entry(resolver_entries)
    /\ search' = NoSearch
    /\ UNCHANGED <<executor_response, dispatch_failed, similarities>>
    /\ UNCHANGED router_vars
    /\ UNCHANGED tool_vars

\* line 60 is outside the try of line 100: the ValueError of fit_transform
\* leaves conflict_resolver
SearchRaises ==
    /\ node = "conflict_resolver"
    /\ latest_model_response(state) # <<>>
    /\ "error_details" \in DOMAIN state
    /\ vocabulary_empty(state["model_responses"])
    /\ search' = SearchRaised
    /\ node' = uncaught("conflict_resolver")
    /\ prev_node' = "conflict_resolver"
    /\ model_reply' = NoReply
    /\ resolver_entries' = count_entry(resolver_entries)
    /\ UNCHANGED <<state, executor_response, dispatch_failed, similarities>>
    /\ UNCHANGED router_vars
    /\ UNCHANGED tool_vars

\* lines 59-116 when the search returns: the prompt is built from its result
\* and the model's reply is handled as in ResolverResolves
SearchReturns ==
    /\ node = "conflict_resolver"
    /\ latest_model_response(state) # <<>>
    /\ "error_details" \in DOMAIN state
    /\ ~vocabulary_empty(state["model_responses"])
    /\ \E order \in argsorts(similarities) :
          search' = semantic_search(order, state["model_responses"], top_k)
    /\ \E reply \in ModelReplies :
          /\ model_reply' = reply
          /\ state' = IF resolver_reply_raises(reply)
                      THEN resolver_forced_end(state)
                      ELSE resolver_decision(state, reply.dict)
    /\ node' = next_node("conflict_resolver", resolver_branch(state'))
    /\ prev_node' = "conflict_resolver"
    /\ resolver_entries' = count_entry(resolver_entries)
    /\ UNCHANGED <<executor_response, dispatch_failed, similarities>>
    /\ UNCHANGED router_vars
    /\ UNCHANGED tool_vars

SearchNext == SearchSkipped \/ SearchRaises \/ SearchReturns

SearchSpec == SearchInit /\ [][SearchNext]_vars

----------------------------------------------------------------------------
(* delegator_logic called twice, each time on a copy of the same State,    *)
(* with a model stand-in whose reply is a function of the prompt alone     *)

MaxCompleted == 5

\* the replies a stand-in gives, in the order it cycles through them
StandInReplies ==
    << [kind |-> "mapping",
        dict |-> [agent |-> s_connector_agent, action |-> <<"g","e","t">>,
                  parameters |-> ParamsP]],
       [kind |-> "mapping",
        dict |-> [agent |-> sEND, action |-> <<"e","n","d">>, parameters |-> <<>>]],
       [kind |-> "not_literal", dict |-> NoDict],
       [kind |-> "mapping",
        dict |-> [agent |-> s_bigquery_agent, action |-> <<"g","e","t">>]],
       [kind |-> "mapping",
        dict |-> [agent |-> s_conflict_resolver, action |-> <<"f","i","x">>,
                  parameters |-> <<>>]] >>

\* mutant: the prompt shows every executor output, not the last two
prompt_shows_all_outputs(st) ==
    [user_request |-> st["user_request"],
     tasks_done |-> last(get(st, "tasks_done", <<>>), 5),
     model_responses |-> get(st, "model_responses", <<>>)]

\* mutant: the prompt also tells how often the Router was called
prompt_counts_calls(st) ==
    [user_request |-> st["user_request"],
     tasks_done |-> last(get(st, "tasks_done", <<>>), 5) \o decisions,
     model_responses |-> last(get(st, "model_responses", <<>>), 2)]

\* lines 129-204: what of the State the prompt shows
prompt(st) ==
    [user_request |-> st["user_request"],
     tasks_done |-> last(get(st, "tasks_done", <<>>), 5),
     model_responses |-> last(get(st, "model_responses", <<>>), 2)]

\* the number of characters of the texts of a list
RECURSIVE text_size(_)
text_size(texts) ==
    IF texts = <<>> THEN 0 ELSE Len(texts[1]) + text_size(Tail(texts))

\* stand-in number k: the reply is decided by the text of the prompt
reply_of(k, p) ==
    StandInReplies[((k + Len(p.tasks_done) + text_size(p.model_responses)
                       + Len(p.user_request)) % Len(StandInReplies)) + 1]

\* delegator_logic on st, the model answering `reply`
delegator_logic(st, reply) ==
    IF get(st, "has_error", FALSE) THEN delegator_short_circuit(st)
    ELSE IF delegator_reply_raises(reply) THEN st
    ELSE delegator_decision(st, reply.dict)

\* the Routing Decision of a call: what it raised or returned
routing_decision(st, reply) ==
    [raised |-> ~get(st, "has_error", FALSE) /\ delegator_reply_raises(reply),
     next_agent |-> delegator_logic(st, reply)["next_agent"],
     next_task |-> delegator_logic(st, reply)["next_task"]]

\* the State after n successful dispatches
RECURSIVE state_after(_, _)
state_after(req, n) ==
    IF n = 0 THEN initial_state(req)
    ELSE connector_success(
             put(put(state_after(req, n - 1), "next_agent", s_connector_agent),
                 "next_task", <<"g","e","t">> \o s_with_parameters \o str(ParamsP)),
             <<"o","k">>)

\* the States delegator_logic is entered with after n dispatches: at the
\* start or after a success, after a failure, after the resolver skipped
router_inputs(req, n) ==
    { state_after(req, n),
      executor_failure(state_after(req, n), <<"E","R","R","O","R",":"," ","n","f">>),
      put(executor_failure(state_after(req, n), <<"E","R","R","O","R",":"," ","n","f">>),
          "has_error", FALSE) }

RouterInit ==
    /\ \E req \in Requests, n \in 0..MaxCompleted : state \in router_inputs(req, n)
    /\ stand_in \in 0..(Len(StandInReplies) - 1)
    /\ decisions = <<>>
    /\ call = NoCall
    /\ world = NoWorld
    /\ client_calls = <<>>
    /\ returned = NotReturned
    /\ node = "delegator_logic"
    /\ prev_node = "START"
    /\ executor_response = <<>>
    /\ model_reply = NoReply
    /\ dispatch_failed = FALSE
    /\ resolver_entries = 0
    /\ similarities = <<>>
    /\ search = NoSearch

\* one of the two calls: delegator_logic runs on a copy of `state`
RouterCalled ==
    /\ node = "delegator_logic"
    /\ Len(decisions) < 2
    /\ model_reply' = IF get(state, "has_error", FALSE) THEN NoReply
                      ELSE reply_of(stand_in, prompt(state))
    /\ decisions' = Append(decisions,
                           routing_decision(state, reply_of(stand_in, prompt(state))))
    /\ prev_node' = "delegator_logic"
    /\ UNCHANGED <<state, node, stand_in, executor_response, dispatch_failed,
                   resolver_entries, similarities, search>>
    /\ UNCHANGED tool_vars

RouterSpec == RouterInit /\ [][RouterCalled]_vars

----------------------------------------------------------------------------
(* delegator_logic called on two States, `state` and call.state, that may  *)
(* differ in an executor output, in next_agent and next_task and in        *)
(* error_details, with the same model stand-in                             *)

\* st with its i-th executor output replaced by another text (i = 0: none)
with_output(st, i) ==
    IF i = 0 THEN st
    ELSE put(st, "model_responses",
             [st["model_responses"] EXCEPT ![i] = s_connector_prefix \o <<"d","o","n","e">>])

\* st as the resolver leaves it when it was skipped after a failure
with_detail(st, yes) ==
    IF yes
    THEN put(executor_failure(st, <<"E","R","R","O","R",":"," ","n","f">>),
             "has_error", FALSE)
    ELSE st

\* st with the decision of another routing step
with_decision(st, yes) ==
    IF yes
    THEN put(put(st, "next_agent", s_bigquery_agent),
             "next_task", <<"f","i","x">> \o s_with_parameters \o str(<<>>))
    ELSE st

PairInit ==
    /\ \E req \in Requests, n \in 0..MaxCompleted :
          /\ \E d \in BOOLEAN : state = with_detail(state_after(req, n), d)
          /\ \E i \in 0..n, d \in BOOLEAN, a \in BOOLEAN :
                call = [function |-> "delegator_logic",
                        state |-> with_decision(
                                      with_detail(with_output(state_after(req, n), i), d),
                                      a)]
    /\ stand_in \in 0..(Len(StandInReplies) - 1)
    /\ decisions = <<>>
    /\ world = NoWorld
    /\ client_calls = <<>>
    /\ returned = NotReturned
    /\ node = "delegator_logic"
    /\ prev_node = "START"
    /\ executor_response = <<>>
    /\ model_reply = NoReply
    /\ dispatch_failed = FALSE
    /\ resolver_entries = 0
    /\ similarities = <<>>
    /\ search = NoSearch

\* delegator_logic runs on a copy of `state`, then on a copy of call.state
PairCalled ==
    /\ node = "delegator_logic"
    /\ call.function = "delegator_logic"
    /\ Len(decisions) < 2
    /\ LET st == IF decisions = <<>> THEN state ELSE call.state
       IN  /\ model_reply' = IF get(st, "has_error", FALSE) THEN NoReply
                             ELSE reply_of(stand_in, prompt(st))
           /\ decisions' = Append(decisions,
                                  routing_decision(st, reply_of(stand_in, prompt(st))))
    /\ prev_node' = "delegator_logic"
    /\ UNCHANGED <<state, node, stand_in, executor_response, dispatch_failed,
                   resolver_entries, similarities, search>>
    /\ UNCHANGED tool_vars

PairSpec == PairInit /\ [][PairCalled]_vars

----------------------------------------------------------------------------
(* The executors' classification of a response on its own: each executor   *)
(* node entered at the first dispatch of a run, its agent answering any    *)
(* text made of at most MaxWords fragments                                 *)

MaxWords == 2

ResponseFragments ==
    { s_ERROR, <<"e","r","r","o","r">>, <<"E","r","r","o","r">>,
      <<"E","R","R">>, <<"O","R">>, <<"o","k">>, <<" ">>, <<"E","R","R","0","R">> }

RECURSIVE texts_of(_)
texts_of(k) ==
    IF k = 0 THEN { <<>> }
    ELSE texts_of(k - 1) \cup { t \o f : t \in texts_of(k - 1), f \in ResponseFragments }

ResponseTexts == texts_of(MaxWords)

\* the agent name the Router gives for an executor node
agent_of(n) ==
    CASE n = "call_smart_transformer_agent" -> s_smart_transformer_agent
      [] n = "call_connector_agent" -> s_connector_agent
      [] n = "call_bigquery_agent" -> s_bigquery_agent

ClassifyInit ==
    /\ \E req \in Requests, n \in ExecutorNodes :
          /\ node = n
          /\ state = delegator_decision(
                         initial_state(req),
                         [agent |-> agent_of(n), action |-> <<"g","e","t">>,
                          parameters |-> ParamsP])
    /\ prev_node = "delegator_logic"
    /\ executor_response = <<>>
    /\ model_reply = NoReply
    /\ dispatch_failed = FALSE
    /\ resolver_entries = 0
    /\ similarities = <<>>
    /\ search = NoSearch
    /\ stand_in = 0
    /\ decisions = <<>>
    /\ call = NoCall
    /\ world = NoWorld
    /\ client_calls = <<>>
    /\ returned = NotReturned

\* the executor node runs, its agent answers `response`
Classify ==
    /\ node \in ExecutorNodes
    /\ \E response \in ResponseTexts :
          /\ executor_response' = response
          /\ state' = executor_body(node, state, response)
          /\ dispatch_failed' = is_error(response)
    /\ node' = next_node(node, {})
    /\ prev_node' = node
    /\ model_reply' = NoReply
    /\ resolver_entries' = 0
    /\ UNCHANGED search_vars
    /\ UNCHANGED router_vars
    /\ UNCHANGED tool_vars

ClassifySpec == ClassifyInit /\ [][Classify]_vars

----------------------------------------------------------------------------
(* run_workflow of api.py: the POST /workflow endpoint, called with any    *)
(* request text of at most MaxWords words                                  *)

\* `def execute_workflow():` takes no parameter
execute_workflow_params == 0

RequestWords ==
    { <<"g","e","t">>, <<"m","e","r","g","e">>, <<"l","o","a","d">>, <<" ">>,
      <<"a",".","c","s","v">>, <<"b",".","c","s","v">>, sEND }

RECURSIVE requests_of(_)
requests_of(k) ==
    IF k = 0 THEN { <<>> }
    ELSE requests_of(k - 1) \cup { r \o w : r \in requests_of(k - 1), w \in RequestWords }

\* a Python call of execute_workflow with positional arguments `args`: the
\* function has no return statement, it returns None
call_execute_workflow(args) ==
    IF Len(args) # execute_workflow_params
    THEN [raised |-> "TypeError", value |-> NoDict]
    ELSE [raised |-> "none", value |-> NoDict]

\* api.py line 143: the entries that are not empty
tasks_completed(result) ==
    SelectSeq(get(result, "tasks_done", <<>>),
              LAMBDA t : \E k \in DOMAIN t : t[k] # <<>>)

\* api.py lines 140-153
WorkflowResponse(result, request) ==
    [kind |-> "WorkflowResponse",
     status |-> IF get(result, "next_agent", <<>>) = sEND
                THEN "completed" ELSE "incomplete",
     request |-> request,
     tasks_completed |-> tasks_completed(result),
     final_agent |-> get(result, "next_agent", <<"u","n","k","n","o","w","n">>),
     error |-> get(result, "error_details", <<>>)]

\* api.py lines 155-163
HTTPException(exception) ==
    [kind |-> "HTTPException", status_code |-> 500, error |-> exception,
     message |-> "Workflow execution failed"]

\* api.py lines 135-163: the body of run_workflow
run_workflow(request) ==
    LET result == call_execute_workflow(<<request>>)
    IN  IF result.raised # "none" THEN HTTPException(result.raised)
        ELSE IF "none" \in DOMAIN result.value THEN HTTPException("AttributeError")
        ELSE WorkflowResponse(result.value, request)

\* the graph is not built, it has no state and no node
ApiInit ==
    /\ \E request \in requests_of(MaxWords) :
          call = [function |-> "run_workflow", request |-> request]
    /\ returned = NotReturned
    /\ world = NoWorld
    /\ client_calls = <<>>
    /\ state = <<>>
    /\ node = "none"
    /\ prev_node = "none"
    /\ executor_response = <<>>
    /\ model_reply = NoReply
    /\ dispatch_failed = FALSE
    /\ resolver_entries = 0
    /\ similarities = <<>>
    /\ search = NoSearch
    /\ stand_in = 0
    /\ decisions = <<>>

RunWorkflow ==
    /\ call.function = "run_workflow"
    /\ returned = NotReturned
    /\ returned' = run_workflow(call.request)
    /\ UNCHANGED <<call, world, client_calls, state, node, prev_node,
                   executor_response, model_reply, dispatch_failed,
                   resolver_entries>>
    /\ UNCHANGED search_vars
    /\ UNCHANGED router_vars

ApiSpec == ApiInit /\ [][RunWorkflow]_vars

----------------------------------------------------------------------------
(* GCPSource.upload_file and GCPSource.download_file, called on a bucket   *)
(* and a local disk that hold any of a few files                           *)

bucket_name == <<"b","k">>

s_slash == <<"/">>

LocalPaths == { <<"a">>, <<"d","/","a">> }

BlobNames == { <<"a">>, <<"x","/","a">> }

\* the position of the last '/' of a path, 0 when it has none
rfind_slash(path) ==
    IF \E i \in 1..Len(path) : path[i] = "/"
    THEN CHOOSE i \in 1..Len(path) :
             path[i] = "/" /\ \A j \in (i + 1)..Len(path) : path[j] # "/"
    ELSE 0

RECURSIVE rstrip_slash(_)
rstrip_slash(s) ==
    IF s # <<>> /\ s[Len(s)] = "/" THEN rstrip_slash(SubSeq(s, 1, Len(s) - 1)) ELSE s

\* os.path.dirname
dirname(path) ==
    LET head == SubSeq(path, 1, rfind_slash(path))
    IN  IF head # <<>> /\ \E i \in 1..Len(head) : head[i] # "/"
        THEN rstrip_slash(head) ELSE head

\* the directories that hold a file of the local disk
RECURSIVE parents(_)
parents(path) ==
    IF dirname(path) = <<>> \/ dirname(path) = path THEN {}
    ELSE {dirname(path)} \cup parents(dirname(path))

isdir(w, path) == \E f \in w.files : path \in parents(f)

\* os.path.exists
path_exists(w, path) == path \in w.files \/ isdir(w, path)

\* line 44: os.makedirs(d, exist_ok=True) raises FileNotFoundError for the
\* empty path and FileExistsError for a path that is a regular file
makedirs_raises(w, d) == d = <<>> \/ d \in w.files

\* line 42
default_dest_path(filename) == <<".","/","d","a","t","a","/">> \o filename

\* line 39
blob_not_found(filename) ==
    <<"E","R","R","O","R"," ",":"," ","F","i","l","e"," ","'">> \o filename
        \o <<"'"," ","n","o","t"," ","f","o","u","n","d"," ","i","n"," ","b","u","c","k","e","t">>

\* line 50
source_not_found(source_file_path) ==
    <<"E","R","R","O","R"," ",":"," ","S","o","u","r","c","e"," ","f","i","l","e"," ","'">>
        \o source_file_path \o <<"'"," ","n","o","t"," ","f","o","u","n","d">>

\* line 54
gs_uri(dest_blob_name) ==
    <<"g","s",":","/","/">> \o bucket_name \o s_slash \o dest_blob_name

Str(text) == [kind |-> "str", text |-> text]

Raised(exception) == [kind |-> "raised", exception |-> exception]

\* what a transfer of the storage client can do
TransferOutcomes == {"done", "raises"}

GcsCalls ==
    { [function |-> "upload_file", source_file_path |-> s, dest_blob_name |-> b] :
          s \in LocalPaths \cup { <<"d">> }, b \in BlobNames }
    \cup { [function |-> "download_file", filename |-> f] : f \in BlobNames }
    \cup { [function |-> "download_file", filename |-> f, dest_path |-> p] :
          f \in BlobNames, p \in LocalPaths \cup { <<"o","u","t","/","a">> } }

GcsInit ==
    /\ call \in GcsCalls
    /\ \E files \in SUBSET LocalPaths, blobs \in SUBSET BlobNames :
          world = [files |-> files, blobs |-> blobs, datasets |-> {}]
    /\ client_calls = <<>>
    /\ returned = NotReturned
    /\ state = <<>>
    /\ node = "none"
    /\ prev_node = "none"
    /\ executor_response = <<>>
    /\ model_reply = NoReply
    /\ dispatch_failed = FALSE
    /\ resolver_entries = 0
    /\ similarities = <<>>
    /\ search = NoSearch
    /\ stand_in = 0
    /\ decisions = <<>>

graph_vars ==
    <<state, node, prev_node, executor_response, model_reply, dispatch_failed,
      resolver_entries>>

\* lines 48-54
UploadFile ==
    /\ call.function = "upload_file"
    /\ returned = NotReturned
    /\ IF ~path_exists(world, call.source_file_path)
       THEN /\ returned' = Str(source_not_found(call.source_file_path))
            /\ UNCHANGED <<world, client_calls>>
       ELSE /\ client_calls' =
                 Append(client_calls,
                        [method |-> "upload_from_filename",
                         blob |-> call.dest_blob_name,
                         filename |-> call.source_file_path])
            /\ \E outcome \in TransferOutcomes :
                  IF outcome = "raises" \/ isdir(world, call.source_file_path)
                  THEN /\ returned' = Raised("upload_from_filename")
                       /\ UNCHANGED world
                  ELSE /\ returned' = Str(gs_uri(call.dest_blob_name))
                       /\ world' = [world EXCEPT
                                      !.blobs = @ \cup {call.dest_blob_name}]
    /\ UNCHANGED <<call, graph_vars, search_vars, router_vars>>

\* lines 36-46
DownloadFile ==
    /\ call.function = "download_file"
    /\ returned = NotReturned
    /\ LET dest_path == IF "dest_path" \in DOMAIN call THEN call.dest_path
                        ELSE default_dest_path(call.filename)
       IN  IF call.filename \notin world.blobs
           THEN /\ returned' = Str(blob_not_found(call.filename))
                /\ UNCHANGED <<world, client_calls>>
           ELSE IF makedirs_raises(world, dirname(dest_path))
           THEN /\ returned' = Raised("makedirs")
                /\ UNCHANGED <<world, client_calls>>
           ELSE /\ client_calls' =
                     Append(client_calls,
                            [method |-> "download_to_filename",
                             blob |-> call.filename, filename |-> dest_path])
                /\ \E outcome \in TransferOutcomes :
                      IF outcome = "raises" \/ isdir(world, dest_path)
                      THEN /\ returned' = Raised("download_to_filename")
                           /\ UNCHANGED world
                      ELSE /\ returned' = Str(dest_path)
                           /\ world' = [world EXCEPT !.files = @ \cup {dest_path}]
    /\ UNCHANGED <<call, graph_vars, search_vars, router_vars>>

GcsNext == UploadFile \/ DownloadFile

GcsSpec == GcsInit /\ [][GcsNext]_vars

----------------------------------------------------------------------------
(* BigQuerySource.create_dataset and BigQuerySource.create_table, called   *)
(* on a project that holds any of a few datasets and tables; the client    *)
(* refuses what it cannot do and may fail for reasons of its own           *)

DatasetIds == { <<"d","s">>, <<"d","2">> }

TableIds == { <<"t">>, <<"t","2">> }

s_dot == <<".">>

s_already_exists == <<"A","l","r","e","a","d","y"," ","e","x","i","s","t","s">>

s_not_found == <<"N","o","t"," ","f","o","u","n","d">>

s_permission_denied == <<"P","e","r","m","i","s","s","i","o","n"," ","d","e","n","i","e","d">>

\* str(e) of no exception: the client call returned
NoException == <<>>

\* line 26
dataset_failed(dataset_id, e) ==
    <<"E","R","R","O","R"," ",":"," ","F","a","i","l","e","d"," ","t","o"," ","c","r","e","a","t","e"," ","d","a","t","a","s","e","t"," ">>
        \o dataset_id \o <<" ","."," ","E","x","c","e","p","t","i","o","n",":"," ">> \o e

\* line 27
dataset_created(dataset_id) ==
    <<"D","a","t","a","s","e","t"," ">> \o dataset_id \o <<" ","c","r","e","a","t","e","d",".">>

\* line 39
table_failed(dataset_id, table_id, e) ==
    <<"E","R","R","O","R"," ",":"," ","F","a","i","l","e","d"," ","t","o"," ","c","r","e","a","t","e"," ","t","a","b","l","e"," ">>
        \o table_id \o <<" ","i","n"," ","d","a","t","a","s","e","t"," ">> \o dataset_id
        \o <<" ","."," ","E","x","c","e","p","t","i","o","n",":"," ">> \o e

\* line 40
table_created(dataset_id, table_id) ==
    <<"T","a","b","l","e"," ">> \o table_id
        \o <<" ","c","r","e","a","t","e","d"," ","i","n"," ","d","a","t","a","s","e","t"," ">>
        \o dataset_id \o s_dot

\* mutant: no try around the client call, its exception leaves the method
create_dataset_unguarded(dataset_id, e) ==
    IF e # NoException THEN Raised("create_dataset")
    ELSE Str(dataset_created(dataset_id))

\* lines 23-27, the client call having raised e or returned
create_dataset(dataset_id, e) ==
    IF e # NoException THEN Str(dataset_failed(dataset_id, e))
    ELSE Str(dataset_created(dataset_id))

\* lines 36-40
create_table(dataset_id, table_id, e) ==
    IF e # NoException THEN Str(table_failed(dataset_id, table_id, e))
    ELSE Str(table_created(dataset_id, table_id))

table_name(dataset_id, table_id) == dataset_id \o s_dot \o table_id

\* what client.create_dataset can do in world w
client_create_dataset(w, dataset_id) ==
    IF dataset_id \in w.datasets THEN {s_already_exists}
    ELSE {NoException, s_permission_denied}

\* what client.create_table can do in world w
client_create_table(w, dataset_id, table_id) ==
    IF dataset_id \notin w.datasets THEN {s_not_found}
    ELSE IF table_name(dataset_id, table_id) \in w.datasets THEN {s_already_exists}
    ELSE {NoException, s_permission_denied}

BigQueryCalls ==
    { [function |-> "create_dataset", dataset_id |-> d] : d \in DatasetIds }
    \cup { [function |-> "create_table", dataset_id |-> d, table_id |-> t] :
             d \in DatasetIds, t \in TableIds }

BigQueryInit ==
    /\ call \in BigQueryCalls
    /\ \E datasets \in SUBSET DatasetIds,
          tables \in SUBSET { table_name(d, <<"t">>) : d \in DatasetIds } :
          /\ \A d \in DatasetIds : table_name(d, <<"t">>) \in tables => d \in datasets
          /\ world = [files |-> {}, blobs |-> {}, datasets |-> datasets \cup tables]
    /\ client_calls = <<>>
    /\ returned = NotReturned
    /\ state = <<>>
    /\ node = "none"
    /\ prev_node = "none"
    /\ executor_response = <<>>
    /\ model_reply = NoReply
    /\ dispatch_failed = FALSE
    /\ resolver_entries = 0
    /\ similarities = <<>>
    /\ search = NoSearch
    /\ stand_in = 0
    /\ decisions = <<>>

\* lines 20-27
CreateDataset ==
    /\ call.function = "create_dataset"
    /\ returned = NotReturned
    /\ \E e \in client_create_dataset(world, call.dataset_id) :
          /\ client_calls' = Append(client_calls,
                                    [method |-> "create_dataset",
                                     id |-> call.dataset_id, raised |-> e])
          /\ returned' = create_dataset(call.dataset_id, e)
          /\ world' = IF e = NoException
                      THEN [world EXCEPT !.datasets = @ \cup {call.dataset_id}]
                      ELSE world
    /\ UNCHANGED <<call, graph_vars, search_vars, router_vars>>

\* lines 33-40
CreateTable ==
    /\ call.function = "create_table"
    /\ returned = NotReturned
    /\ \E e \in client_create_table(world, call.dataset_id, call.table_id) :
          /\ client_calls' = Append(client_calls,
                                    [method |-> "create_table",
                                     id |-> table_name(call.dataset_id, call.table_id),
                                     raised |-> e])
          /\ returned' = create_table(call.dataset_id, call.table_id, e)
          /\ world' = IF e = NoException
                      THEN [world EXCEPT
                              !.datasets = @ \cup {table_name(call.dataset_id,
                                                              call.table_id)}]
                      ELSE world
    /\ UNCHANGED <<call, graph_vars, search_vars, router_vars>>

BigQueryNext == CreateDataset \/ CreateTable

BigQuerySpec == BigQueryInit /\ [][BigQueryNext]_vars

----------------------------------------------------------------------------
(* execute_bigquery_query of agents/bigquery_assistant.py over             *)
(* BigQuerySource.query: world.datasets holds the datasets and tables that *)
(* exist, world.credentials tells whether the service account file loads   *)

s_select_from == <<"S","E","L","E","C","T"," ","*"," ","F","R","O","M"," ">>

\* SELECT over each table name, and a text that is no SQL
Queries ==
    { s_select_from \o table_name(d, <<"t">>) : d \in DatasetIds }
    \cup { <<"S","E","L","E","C">> }

s_bad_request == <<"S","y","n","t","a","x"," ","e","r","r","o","r">>

\* the text of a query after its first n characters
after(s, n) == SubSeq(s, n + 1, Len(s))

\* s[:len(prefix)] == prefix
startswith(s, prefix) ==
    Len(s) >= Len(prefix) /\ SubSeq(s, 1, Len(prefix)) = prefix

\* what client.query(query).result() can do in world w
client_query(w, query) ==
    IF ~startswith(query, s_select_from) THEN {s_bad_request}
    ELSE IF after(query, Len(s_select_from)) \notin w.datasets THEN {s_not_found}
    ELSE {NoException, s_permission_denied}

\* pd.DataFrame()
EmptyDataFrame == [columns |-> <<>>, rows |-> <<>>]

\* results.to_dataframe() of a table: one column, no row or one row
DataFrames ==
    { [columns |-> <<"c">>, rows |-> rows] : rows \in { <<>>, << <<"1">> >> } }

\* df.to_string(index=False)
to_string(df) ==
    IF df.rows = <<>>
    THEN <<"E","m","p","t","y"," ","D","a","t","a","F","r","a","m","e","\n","C","o","l","u","m","n","s",":"," ","[">> \o df.columns \o <<"]","\n","I","n","d","e","x",":"," ","[","]">>
    ELSE df.columns \o <<"\n">> \o df.rows[1]

\* bigquery_assistant.py line 33
query_failed(e) == <<"E","R","R","O","R"," ",":"," ","F","a","i","l","e","d"," ","t","o"," ","e","x","e","c","u","t","e"," ","q","u","e","r","y","."," ","E","x","c","e","p","t","i","o","n",":"," ">> \o e

\* bigquery_assistant.py line 36
query_succeeded(result_str) == <<"Q","u","e","r","y"," ","e","x","e","c","u","t","e","d"," ","s","u","c","c","e","s","s","f","u","l","l","y","."," ","R","e","s","u","l","t","s",":","\n">> \o result_str

\* BigQuerySource.query, lines 65-73, the client having raised e or
\* returned df: the exception is printed and an empty frame is returned
query(e, df) ==
    IF e # NoException THEN [kind |-> "frame", frame |-> EmptyDataFrame]
    ELSE [kind |-> "frame", frame |-> df]

\* bigquery_assistant.py lines 29-36 over the outcome of bq_obj.query
execute_bigquery_query(outcome) ==
    IF outcome.kind = "raised" THEN Str(query_failed(outcome.exception))
    ELSE Str(query_succeeded(to_string(outcome.frame)))

QueryInit ==
    /\ call \in { [function |-> "execute_bigquery_query", query |-> q] : q \in Queries }
    /\ \E datasets \in SUBSET DatasetIds,
          tables \in SUBSET { table_name(d, <<"t">>) : d \in DatasetIds },
          credentials \in BOOLEAN :
          /\ \A d \in DatasetIds : table_name(d, <<"t">>) \in tables => d \in datasets
          /\ world = [files |-> {}, blobs |-> {}, datasets |-> datasets \cup tables,
                      credentials |-> credentials]
    /\ client_calls = <<>>
    /\ returned = NotReturned
    /\ state = <<>>
    /\ node = "none"
    /\ prev_node = "none"
    /\ executor_response = <<>>
    /\ model_reply = NoReply
    /\ dispatch_failed = FALSE
    /\ resolver_entries = 0
    /\ similarities = <<>>
    /\ search = NoSearch
    /\ stand_in = 0
    /\ decisions = <<>>

\* bigquery_assistant.py lines 26-36: the constructor (bigquery_source.py
\* lines 14-17) runs outside the try and raises without credentials
ExecuteBigqueryQuery ==
    /\ call.function = "execute_bigquery_query"
    /\ returned = NotReturned
    /\ IF ~world.credentials
       THEN /\ returned' = Raised("from_service_account_file")
            /\ UNCHANGED client_calls
       ELSE \E e \in client_query(world, call.query), df \in DataFrames :
               /\ client_calls' = Append(client_calls,
                                         [method |-> "query", id |-> call.query,
                                          raised |-> e])
               /\ returned' = execute_bigquery_query(query(e, df))
    /\ UNCHANGED <<call, world, graph_vars, search_vars, router_vars>>

QuerySpec == QueryInit /\ [][ExecuteBigqueryQuery]_vars

----------------------------------------------------------------------------
(* load_data_to_gcp of agents/connector.py over GCPSource: world.bucket    *)
(* tells whether the bucket exists, world.files which local files exist.   *)
(* The messages are given without their rule and their pictographs.        *)

s_data_dir == <<".","/","d","a","t","a","/">>

project_id == <<"p">>

\* a GCPSource instance
GCPSourceObject(project, bucket) ==
    [kind |-> "object", project_id |-> project, bucket_name |-> bucket]

None == [kind |-> "None"]

\* Python's truth value of a str or of an instance
truthy(v) ==
    CASE v.kind = "str" -> v.text # <<>>
      [] v.kind = "object" -> TRUE
      [] v.kind = "None" -> FALSE

\* gcs_source.py line 29
bucket_failed(e) ==
    <<"E","R","R","O","R"," ",":"," ","F","a","i","l","e","d"," ","t","o"," ","c","r","e","a","t","e"," ","b","u","c","k","e","t"," ">> \o bucket_name \o <<" ","."," ","E","x","c","e","p","t","i","o","n",":"," ">> \o e

\* GCPSource.create_bucket, gcs_source.py lines 17-30, the bucket existing
\* or not and client.create_bucket having raised e or returned
create_bucket(exists, e) ==
    IF exists THEN GCPSourceObject(None, None)
    ELSE IF e # NoException THEN Str(bucket_failed(e))
    ELSE GCPSourceObject(project_id, bucket_name)

\* what client.create_bucket can do
client_create_bucket == {NoException, s_permission_denied}

\* connector.py lines 62-65
bucket_creation_failed ==
    <<"E","R","R","O","R",":"," ","B","u","c","k","e","t"," ","C","r","e","a","t","i","o","n"," ","F","a","i","l","e","d","\n","F","a","i","l","e","d"," ","t","o"," ","c","r","e","a","t","e"," ","b","u","c","k","e","t"," ","'">> \o bucket_name \o <<"'"," ","i","n"," ","p","r","o","j","e","c","t"," ","'">> \o project_id \o <<"'",".","\n">>

\* connector.py lines 68-72
bucket_not_found ==
    <<"E","R","R","O","R",":"," ","B","u","c","k","e","t"," ","N","o","t"," ","F","o","u","n","d","\n","B","u","c","k","e","t"," ","'">> \o bucket_name \o <<"'"," ","d","o","e","s"," ","n","o","t"," ","e","x","i","s","t"," ","i","n"," ","p","r","o","j","e","c","t"," ","'">> \o project_id \o <<"'",".","\n","T","i","p",":"," ","S","e","t"," ","c","r","e","a","t","e","_","n","e","w","_","b","u","c","k","e","t","=","T","r","u","e"," ","t","o"," ","c","r","e","a","t","e"," ","i","t",".","\n">>

\* connector.py lines 80-83
upload_failed(upload_status) == <<"E","R","R","O","R",":"," ","U","p","l","o","a","d"," ","F","a","i","l","e","d","\n">> \o upload_status \o <<"\n">>

\* connector.py lines 85-90
upload_complete(source_file_path, dest_blob_name) ==
    <<"U","p","l","o","a","d"," ","C","o","m","p","l","e","t","e","\n","F","i","l","e",":"," ">> \o dest_blob_name \o <<"\n","D","e","s","t","i","n","a","t","i","o","n",":"," ">> \o gs_uri(dest_blob_name)
        \o <<"\n","S","o","u","r","c","e",":"," ">> \o source_file_path \o <<"\n">>

\* connector.py lines 53-55
local_source(w, source_file_path) ==
    IF ~path_exists(w, source_file_path) THEN s_data_dir \o source_file_path
    ELSE source_file_path

\* GCPSource.upload_file, gcs_source.py lines 48-54, with the outcome of
\* the transfer
upload_file(w, source_file_path, dest_blob_name, outcome) ==
    IF ~path_exists(w, source_file_path) THEN Str(source_not_found(source_file_path))
    ELSE IF outcome = "raises" \/ isdir(w, source_file_path)
    THEN Raised("upload_from_filename")
    ELSE Str(gs_uri(dest_blob_name))

\* connector.py lines 77-90: gcp_obj.upload_file(...), then the answer
upload_answer(gcp_obj, w, source_file_path, dest_blob_name, outcome) ==
    IF gcp_obj.kind # "object" THEN Raised("AttributeError")
    ELSE LET upload_status ==
                 upload_file(w, source_file_path, dest_blob_name, outcome)
         IN  IF upload_status.kind = "raised" THEN upload_status
             ELSE IF contains(s_ERROR, upload_status.text)
             THEN Str(upload_failed(upload_status.text))
             ELSE Str(upload_complete(source_file_path, dest_blob_name))

LoadCalls ==
    { [function |-> "load_data_to_gcp", source_file_path |-> s,
       dest_blob_name |-> b, create_new_bucket |-> c] :
          s \in LocalPaths, b \in BlobNames, c \in BOOLEAN }

LoadInit ==
    /\ call \in LoadCalls
    /\ \E files \in SUBSET { <<"a">>, s_data_dir \o <<"a">> }, bucket \in BOOLEAN :
          world = [files |-> files, blobs |-> {}, datasets |-> {}, bucket |-> bucket]
    /\ client_calls = <<>>
    /\ returned = NotReturned
    /\ state = <<>>
    /\ node = "none"
    /\ prev_node = "none"
    /\ executor_response = <<>>
    /\ model_reply = NoReply
    /\ dispatch_failed = FALSE
    /\ resolver_entries = 0
    /\ similarities = <<>>
    /\ search = NoSearch
    /\ stand_in = 0
    /\ decisions = <<>>

\* the calls upload_file makes on the storage client
upload_calls(gcp_obj, w, source_file_path, dest_blob_name) ==
    IF gcp_obj.kind = "object" /\ path_exists(w, source_file_path)
    THEN << [method |-> "upload_from_filename", blob |-> dest_blob_name,
             filename |-> source_file_path] >>
    ELSE <<>>

\* connector.py lines 48-90
LoadDataToGcp ==
    /\ call.function = "load_data_to_gcp"
    /\ returned = NotReturned
    /\ LET source_file_path == local_source(world, call.source_file_path)
       IN  IF ~world.bucket /\ ~call.create_new_bucket
           THEN /\ returned' = Str(bucket_not_found)
                /\ UNCHANGED <<world, client_calls>>
           ELSE \E e \in client_create_bucket, outcome \in TransferOutcomes :
                   LET gcp_obj == IF world.bucket
                                  THEN GCPSourceObject(project_id, bucket_name)
                                  ELSE create_bucket(FALSE, e)
                       created == IF world.bucket THEN <<>>
                                  ELSE << [method |-> "create_bucket",
                                           bucket |-> bucket_name, raised |-> e] >>
                       w == [world EXCEPT !.bucket = @ \/ e = NoException]
                   IN  IF ~truthy(gcp_obj)
                       THEN /\ returned' = Str(bucket_creation_failed)
                            /\ client_calls' = client_calls \o created
                            /\ world' = w
                       ELSE /\ returned' = upload_answer(gcp_obj, w, source_file_path,
                                                         call.dest_blob_name, outcome)
                            /\ client_calls' =
                                 client_calls \o created
                                   \o upload_calls(gcp_obj, w, source_file_path,
                                                   call.dest_blob_name)
                            /\ world' =
                                 IF returned' = Str(upload_complete(source_file_path,
                                                                    call.dest_blob_name))
                                 THEN [w EXCEPT !.blobs = @ \cup {call.dest_blob_name}]
                                 ELSE w
    /\ UNCHANGED <<call, graph_vars, search_vars, router_vars>>

LoadSpec == LoadInit /\ [][LoadDataToGcp]_vars

----------------------------------------------------------------------------
(* generate_pandas_logic of agents/data_transformer.py: world.files are    *)
(* the local files, world.content their contents; the model's reply is a   *)
(* code text together with what running that text does                     *)

InputFilenames == { <<"a",".","c","s","v">>, <<"b",".","c","s","v">> }

OutputFilenames == { <<"a",".","c","s","v">>, <<"o",".","c","s","v">> }

Contents == { <<"1">>, <<"2">> }

\* datetime.now().strftime("%Y%m%d_%H%M%S") at the time of the backup
Timestamps == { <<"2","0","2","6","0","1","0","1","_","0","0","0","0","0","0">>, <<"2","0","2","6","0","1","0","1","_","0","0","0","0","0","1">> }

\* the character ` (grave accent), which a TLA+ string cannot hold
backquote == "grave"

s_fence == <<backquote,backquote,backquote>>

s_fence_python == <<backquote,backquote,backquote,"p","y","t","h","o","n">>

\* the position of the first occurrence of sub in s, 0 when there is none
find(sub, s) ==
    IF contains(sub, s)
    THEN CHOOSE i \in 1..Len(s) :
             /\ SubSeq(s, i, i + Len(sub) - 1) = sub
             /\ \A j \in 1..(i - 1) : SubSeq(s, j, j + Len(sub) - 1) # sub
    ELSE 0

whitespace == {" ", "\n"}

\* str.strip()
RECURSIVE strip(_)
strip(s) ==
    IF s # <<>> /\ s[1] \in whitespace THEN strip(Tail(s))
    ELSE IF s # <<>> /\ s[Len(s)] \in whitespace THEN strip(SubSeq(s, 1, Len(s) - 1))
    ELSE s

\* s.split(sep)[0]
split_0(s, sep) ==
    IF find(sep, s) = 0 THEN s ELSE SubSeq(s, 1, find(sep, s) - 1)

\* s.split(sep)[1], for an s that holds sep
split_1(s, sep) == split_0(after(s, find(sep, s) + Len(sep) - 1), sep)

\* lines 61-64
clean_markdown(generated_code) ==
    IF startswith(generated_code, s_fence_python)
    THEN strip(split_0(split_1(generated_code, s_fence_python), s_fence))
    ELSE IF startswith(generated_code, s_fence)
    THEN strip(split_0(split_1(generated_code, s_fence), s_fence))
    ELSE generated_code

\* line 72
forbidden_keywords ==
    << <<"i","m","p","o","r","t">>, <<"e","x","e","c">>, <<"e","v","a","l">>, <<"o","p","e","n">>, <<"_","_">>, <<"o","s",".">>, <<"s","y","s",".">>, <<"s","u","b","p","r","o","c","e","s","s">>, <<"c","o","m","p","i","l","e">> >>

\* mutant: the keywords are looked for in the code as it is written
first_forbidden_case_sensitive(generated_code) ==
    IF \E i \in 1..Len(forbidden_keywords) : contains(forbidden_keywords[i], generated_code)
    THEN forbidden_keywords[CHOOSE i \in 1..Len(forbidden_keywords) :
             /\ contains(forbidden_keywords[i], generated_code)
             /\ \A j \in 1..(i - 1) : ~contains(forbidden_keywords[j], generated_code)]
    ELSE <<>>

\* lines 73-76: the first keyword of the list found in the lower-cased
\* code, the empty text when there is none
first_forbidden(generated_code) ==
    LET code_lower == lower(generated_code)
    IN  IF \E i \in 1..Len(forbidden_keywords) : contains(forbidden_keywords[i], code_lower)
        THEN forbidden_keywords[CHOOSE i \in 1..Len(forbidden_keywords) :
                 /\ contains(forbidden_keywords[i], code_lower)
                 /\ \A j \in 1..(i - 1) : ~contains(forbidden_keywords[j], code_lower)]
        ELSE <<>>

\* line 26
file_missing(input_filename) ==
    <<"E","R","R","O","R"," ",":"," ","F","i","l","e"," ">> \o input_filename \o <<" ","d","o","e","s"," ","n","o","t"," ","e","x","i","s","t",".">>

\* line 76
forbidden_operation(keyword) == <<"E","r","r","o","r",":"," ","F","o","r","b","i","d","d","e","n"," ","o","p","e","r","a","t","i","o","n",":"," ","'">> \o keyword \o <<"'">>

\* line 83
executing_failed(e, generated_code) ==
    <<"E","r","r","o","r"," ","e","x","e","c","u","t","i","n","g"," ","c","o","d","e",":"," ">> \o e \o <<"\n","\n","C","o","d","e",":","\n">> \o generated_code

\* line 92
transformed_message(output_filename, backup_path) ==
    <<"S","u","c","c","e","s","s","!"," ","T","r","a","n","s","f","o","r","m","e","d"," ","d","a","t","a"," ","s","a","v","e","d"," ","t","o",":"," ">> \o output_filename \o <<"\n","O","r","i","g","i","n","a","l"," ","b","a","c","k","e","d"," ","u","p"," ","t","o",":"," ">> \o backup_path

\* line 95
failed(e) == <<"E","R","R","O","R",":"," ">> \o e

\* os.path.basename
basename(path) == after(path, rfind_slash(path))

\* line 89
backup_path_of(timestamp, input_filename) ==
    <<".","/","b","a","c","k","u","p","s","/">> \o timestamp \o <<"_">> \o basename(input_filename)

\* the code the prompt's example asks for
read_and_write(input_filename, output_filename) ==
    <<"d","f"," ","="," ","p","d",".","r","e","a","d","_","c","s","v","(","\"">> \o input_filename \o <<"\"",")","\n">> \o <<"d","f",".","t","o","_","c","s","v","(","\"">> \o output_filename \o <<"\"",","," ","i","n","d","e","x","=","F","a","l","s","e",")">>

\* what the table of a file becomes under the asked transformation
transformed(content) == content \o <<"+">>

\* What the model can answer: the content of its reply and what running
\* the code of that content does (transform: read the input file, write
\* the transformed table to the output file; raises: fail before writing).
GeneratedReplies(input_filename, output_filename) ==
    LET code == read_and_write(input_filename, output_filename)
    IN  { [kind |-> "code", content |-> code, effect |-> "transform"],
          [kind |-> "code", content |-> s_fence_python \o <<"\n">> \o code \o <<"\n">> \o s_fence \o <<"\n">>,
           effect |-> "transform"],
          [kind |-> "code", content |-> <<"I","m","p","o","r","t"," ","s","h","u","t","i","l","\n">> \o code, effect |-> "transform"],
          [kind |-> "code", content |-> s_fence \o <<"\n">> \o code \o <<"\n","d","f",".","_","_","c","l","a","s","s","_","_","\n">> \o s_fence,
           effect |-> "transform"],
          [kind |-> "code", content |-> code \o <<"\n","d","f","[","'","x","'","]"," ","="," ","d","f","[","'","y","'","]">>, effect |-> "raises"],
          [kind |-> "invoke_raises", content |-> <<>>, effect |-> "none"] }

\* exec(generated_code, namespace) of a code that reads and writes
exec_transform(w, input_filename, output_filename) ==
    [w EXCEPT !.files = @ \cup {output_filename},
              !.content = [f \in (DOMAIN @) \cup {output_filename} |->
                              IF f = output_filename
                              THEN transformed(w.content[input_filename])
                              ELSE @[f]]]

\* shutil.copy2(src, dst)
copy2(w, src, dst) ==
    [w EXCEPT !.files = @ \cup {dst},
              !.content = [f \in (DOMAIN @) \cup {dst} |->
                              IF f = dst THEN w.content[src] ELSE @[f]]]

TransformCalls ==
    { [function |-> "generate_pandas_logic", input_filename |-> i,
       output_filename |-> o] : i \in InputFilenames, o \in OutputFilenames }

TransformInit ==
    /\ call \in TransformCalls
    /\ \E files \in SUBSET InputFilenames :
          \E content \in [files -> Contents] :
             world = [files |-> files, content |-> content, blobs |-> {},
                      datasets |-> {}]
    /\ client_calls = <<>>
    /\ returned = NotReturned
    /\ model_reply = NoReply
    /\ state = <<>>
    /\ node = "none"
    /\ prev_node = "none"
    /\ executor_response = <<>>
    /\ dispatch_failed = FALSE
    /\ resolver_entries = 0
    /\ similarities = <<>>
    /\ search = NoSearch
    /\ stand_in = 0
    /\ decisions = <<>>

\* lines 24-95
GeneratePandasLogic ==
    /\ call.function = "generate_pandas_logic"
    /\ returned = NotReturned
    /\ IF ~path_exists(world, call.input_filename)
       THEN /\ returned' = Str(file_missing(call.input_filename))
            /\ UNCHANGED <<world, model_reply>>
       ELSE \E reply \in GeneratedReplies(call.input_filename, call.output_filename),
               timestamp \in Timestamps :
               LET generated_code == clean_markdown(strip(reply.content))
                   backup_path == backup_path_of(timestamp, call.input_filename)
               IN  /\ model_reply' = reply
                   /\ IF reply.kind = "invoke_raises"
                      THEN /\ returned' = Str(failed(<<"C","o","n","n","e","c","t","i","o","n"," ","e","r","r","o","r",".">>))
                           /\ UNCHANGED world
                      ELSE IF first_forbidden(generated_code) # <<>>
                      THEN /\ returned' = Str(forbidden_operation(
                                                  first_forbidden(generated_code)))
                           /\ UNCHANGED world
                      ELSE IF reply.effect = "raises"
                      THEN /\ returned' = Str(executing_failed(<<"'","y","'">>, generated_code))
                           /\ UNCHANGED world
                      ELSE /\ world' = copy2(exec_transform(world, call.input_filename,
                                                            call.output_filename),
                                             call.input_filename, backup_path)
                           /\ returned' = Str(transformed_message(call.output_filename,
                                                                  backup_path))
    /\ UNCHANGED <<call, client_calls, state, node, prev_node, executor_response,
                   dispatch_failed, resolver_entries>>
    /\ UNCHANGED search_vars
    /\ UNCHANGED router_vars

TransformSpec == TransformInit /\ [][GeneratePandasLogic]_vars

----------------------------------------------------------------------------

Next ==
    \/ DelegatorShortCircuit
    \/ DelegatorRaises
    \/ DelegatorDecides
    \/ CallSmartTransformerAgent
    \/ CallConnectorAgent
    \/ CallBigqueryAgent
    \/ ExecutorRaises
    \/ ResolverSkips
    \/ ResolverRaises
    \/ ResolverResolves

Spec == Init /\ [][Next]_vars

\* chain.invoke runs the scheduled node until nothing is scheduled: the run
\* does not stop while a node is scheduled
FairSpec == Spec /\ WF_vars(Next)

----------------------------------------------------------------------------
(* Properties of the control loop *)

\* a step in which executor node n ran to its end
DispatchStep == node \in ExecutorNodes /\ node' = "delegator_logic"

\* C1: every executor dispatch whose response is classified as a success
\* makes tasks_done exactly one longer and leaves has_error false.
C1_SuccessAppendsOne ==
    [][(DispatchStep /\ ~contains(s_ERROR, upper(executor_response')))
         => (/\ Len(tasks_done') = Len(tasks_done) + 1
             /\ has_error' = FALSE)]_vars

C1_Witness ==
    /\ prev_node \in ExecutorNodes
    /\ node = "delegator_logic"
    /\ ~dispatch_failed
    /\ Len(tasks_done) = 3
    /\ ~has_error

\* C2: every executor dispatch whose response is classified as a failure
\* leaves tasks_done and model_responses as they were, sets has_error and
\* stores the raw response text in error_details.
C2_FailureRecordsDetail ==
    [][(DispatchStep /\ contains(s_ERROR, upper(executor_response')))
         => (/\ tasks_done' = tasks_done
             /\ model_responses' = model_responses
             /\ has_error' = TRUE
             /\ error_details' = executor_response')]_vars

C2_Witness ==
    /\ prev_node \in ExecutorNodes
    /\ node = "delegator_logic"
    /\ dispatch_failed
    /\ model_responses # <<>>
    /\ error_details = <<"n","o"," ","e","r","r","o","r","s">>

\* C3 as stated: has_error is true exactly when error_details is non-empty
\* and the last failing dispatch has not been handled by the resolver yet.
C3_FlagIffDetailUnresolved ==
    has_error <=> (error_details # <<>> /\ dispatch_failed /\ resolver_entries = 0)

\* C3 as amended: has_error is true exactly in the state that follows a
\* failing executor dispatch, before the next routing step; there
\* error_details is the non-empty response text and the resolver has not run.
C3_FlagOnlyRightAfterFailure ==
    /\ has_error <=> (prev_node \in ExecutorNodes /\ node = "delegator_logic"
                        /\ dispatch_failed)
    /\ has_error => (/\ error_details # <<>>
                     /\ error_details = executor_response
                     /\ resolver_entries = 0)

C3_Witness ==
    /\ ~has_error
    /\ error_details # <<>>
    /\ dispatch_failed
    /\ resolver_entries = 0
    /\ node = "conflict_resolver"

\* C4: once next_agent is 'END' the run is over: the graph is at its end, no
\* node runs any more and nothing of the run state changes.
C4_EndIsFixedPoint ==
    /\ [](next_agent = sEND => node = "END")
    /\ [][next_agent = sEND => UNCHANGED vars]_vars

C4_Witness ==
    /\ next_agent = sEND
    /\ node = "END"
    /\ prev_node = "conflict_resolver"

\* C5: a run ends normally only by an END decision of the Router or of the
\* Resolver; the edge delegator_logic -> END never ends a run whose decision
\* named an executor.
C5_EndsOnlyByEndDecision ==
    node = "END" => (/\ next_agent = sEND
                     /\ prev_node \in {"delegator_logic", "conflict_resolver"})

C5_Witness ==
    /\ node = "END"
    /\ prev_node = "delegator_logic"
    /\ Len(model_responses) >= 1

\* C6: delegator_logic entered with has_error true does not consult the
\* model, names the resolver as next_agent, builds next_task from
\* error_details, and conflict_resolver is the node that runs next.
C6_ShortCircuitToResolver ==
    [][(node = "delegator_logic" /\ has_error)
         => (/\ model_reply' = NoReply
             /\ next_agent' = s_conflict_resolver
             /\ next_task' = s_resolve_prefix \o error_details
             /\ node' = "conflict_resolver")]_vars

C6_Witness ==
    /\ prev_node = "delegator_logic"
    /\ node = "conflict_resolver"
    /\ model_reply = NoReply
    /\ error_details = <<"E","R","R","O","R",":"," ","n","f">>
    /\ next_task = s_resolve_prefix \o error_details

\* a step that enters conflict_resolver
EntersResolver == node # "conflict_resolver" /\ node' = "conflict_resolver"

\* the Router's model named the resolver in the step
ModelNamesResolver ==
    /\ model_reply'.kind = "mapping"
    /\ get(model_reply'.dict, "agent", <<>>) = s_conflict_resolver

\* C7 as stated: conflict_resolver is entered only when has_error was true
\* at the entry of the routing step, the last executor dispatch having failed.
C7_ResolverOnlyAfterFailure ==
    [][EntersResolver => (has_error /\ dispatch_failed)]_vars

\* C7 as amended: conflict_resolver is entered only from delegator_logic,
\* either because has_error was true at the entry of the routing step or
\* because the Router's model named conflict_resolver as the agent.
C7_ResolverOnlyFromRouter ==
    [][EntersResolver
         => (/\ node = "delegator_logic"
             /\ has_error \/ ModelNamesResolver)]_vars

C7_Witness ==
    /\ node = "conflict_resolver"
    /\ prev_node = "delegator_logic"
    /\ model_reply.kind = "mapping"
    /\ ~dispatch_failed

\* C8 as stated: between a failing dispatch and the next dispatch or the end
\* of the run conflict_resolver is entered exactly once.
C8_ResolverExactlyOnce ==
    (dispatch_failed /\ node \in ExecutorNodes \cup {"END"})
        => resolver_entries = 1

\* C8 as amended: a failing dispatch is followed by the routing step with
\* has_error set, whose short-circuit hands the failure to conflict_resolver
\* as the first resolver entry since that dispatch, and only that once; so
\* the resolver has run at least once before the next dispatch or the end of
\* the run.  It is entered again before the next dispatch only when the
\* Router's model names conflict_resolver.  A corrected action that fails is
\* a fresh failure and is handed over in the same way.
C8_HandedOverOncePerFailure ==
    /\ []((dispatch_failed /\ node \in ExecutorNodes \cup {"END"})
            => resolver_entries >= 1)
    /\ [][/\ (DispatchStep /\ dispatch_failed')
               => (has_error' /\ resolver_entries' = 0)
          /\ (node = "delegator_logic" /\ has_error)
               => (/\ node' = "conflict_resolver"
                   /\ ~has_error'
                   /\ resolver_entries = 0)
          /\ (EntersResolver /\ resolver_entries >= 1)
               => (~has_error /\ ModelNamesResolver)]_vars

C8_Witness ==
    /\ dispatch_failed
    /\ node \in ExecutorNodes
    /\ prev_node = "conflict_resolver"
    /\ resolver_entries = 1
    /\ Len(model_responses) >= 1

\* the reply is no mapping with the keys delegator_logic reads
C9_BadReply ==
    \/ model_reply'.kind \in {"not_literal", "not_mapping"}
    \/ /\ model_reply'.kind = "mapping"
       /\ {"agent", "action"} \ DOMAIN model_reply'.dict # {}

\* C9: when the Router's reply cannot be parsed as a mapping with the keys
\* it reads, delegator_logic raises and the run aborts: the state is not
\* changed, the step is not retried and no node runs afterwards.
C9_RouterParseFailureAborts ==
    /\ [][(node = "delegator_logic" /\ ~has_error /\ C9_BadReply)
            => (node' = "ABORT" /\ state' = state)]_vars
    /\ [][node = "ABORT" => UNCHANGED vars]_vars

C9_Witness ==
    /\ node = "ABORT"
    /\ prev_node = "delegator_logic"
    /\ model_reply.kind = "not_literal"
    /\ Len(model_responses) >= 1

\* C10: when the Resolver's model call or the parsing of its reply fails,
\* conflict_resolver does not raise: next_agent becomes 'END' and the run
\* ends there, with no further dispatch.
C10_ResolverFailureForcesEnd ==
    /\ [][(node = "conflict_resolver"
            /\ model_reply'.kind \in {"invoke_raises", "not_literal", "not_mapping"})
            => (/\ next_agent' = sEND
                /\ next_task' = s_forced_end_task
                /\ node' = "END")]_vars
    /\ [][node = "END" => UNCHANGED vars]_vars

C10_Witness ==
    /\ node = "END"
    /\ prev_node = "conflict_resolver"
    /\ model_reply.kind = "invoke_raises"
    /\ next_task = s_forced_end_task

\* a step of conflict_resolver in which it called the model
ResolverAsked == node = "conflict_resolver" /\ model_reply'.kind # "none"

\* C11 as stated: whenever conflict_resolver produces a decision, the forced
\* END included, has_error is false and error_details is empty on return.
C11_ResolverClearsFailure ==
    [][ResolverAsked => (has_error' = FALSE /\ error_details' = <<>>)]_vars

\* C11 as amended: has_error is false whenever conflict_resolver returns
\* with a decision; error_details is empty when the decision was parsed from
\* the model's reply (corrective or END), and is left as it was when the END
\* is forced by the except clause.
C11_ResolverClearsParsedDecision ==
    [][ResolverAsked
         => (/\ has_error' = FALSE
             /\ model_reply'.kind = "mapping" => error_details' = <<>>
             /\ model_reply'.kind # "mapping"
                  => (/\ next_agent' = sEND
                      /\ error_details' = error_details))]_vars

C11_Witness ==
    /\ node = "END"
    /\ prev_node = "conflict_resolver"
    /\ model_reply.kind = "not_literal"
    /\ ~has_error
    /\ error_details # <<>>

\* C12: conflict_resolver entered with no recorded executor output returns
\* the state as it is, in every field, calls neither the similarity search
\* nor the model (both sit behind the test of line 58) and does not raise.
C12_ResolverSkipsWithoutOutput ==
    [][(node = "conflict_resolver" /\ model_responses = <<>>)
         => (/\ state' = state
             /\ model_reply' = NoReply
             /\ node' # "ABORT")]_vars

C12_Witness ==
    /\ prev_node = "conflict_resolver"
    /\ model_responses = <<>>
    /\ node = "delegator_logic"
    /\ next_agent = s_conflict_resolver

\* the resolver has just skipped after a failing dispatch that no executor
\* output preceded, and the Router is entered again
C13_BackInRouter ==
    /\ prev_node = "conflict_resolver"
    /\ node = "delegator_logic"
    /\ model_responses = <<>>
    /\ dispatch_failed
    /\ resolver_entries = 1

\* C13 as stated: when the first dispatch of a run fails, the Resolver is
\* skipped and control is back in delegator_logic with has_error still true.
C13_FirstFailureLoopsBackWithFlag == C13_BackInRouter => has_error

\* C13 as amended: when a dispatch fails and there is no executor output
\* yet, the routing step resets has_error and enters the Resolver, which
\* skips and hands control back to delegator_logic with has_error false;
\* only error_details still holds the failure text.
C13_FirstFailureLoopsBackWithoutFlag ==
    [][/\ (node = "delegator_logic" /\ has_error /\ model_responses = <<>>)
            => (node' = "conflict_resolver" /\ ~has_error')
       /\ (node = "conflict_resolver" /\ dispatch_failed /\ model_responses = <<>>)
            => (/\ state' = state
                /\ node' = "delegator_logic"
                /\ ~has_error'
                /\ error_details' # <<>>
                /\ error_details' = executor_response)]_vars

C13_Witness ==
    /\ C13_BackInRouter
    /\ ~has_error
    /\ error_details = <<"E","R","R","O","R",":"," ","n","f">>

\* C14: the failure hand-over keeps the failing action for the Resolver.
\* has_error at the routing step means that the executor that just ran
\* failed on next_task (no executor writes next_task); conflict_resolver
\* runs next and, there being executor output, puts next_task into its
\* prompt as the sub-task where the conflict arose.  So the prompt names the
\* failing action exactly if the routing step leaves next_task as it is.
C14_ResolverGetsFailingAction ==
    [][(node = "delegator_logic" /\ has_error /\ model_responses # <<>>)
         => next_task' = next_task]_vars

\* the Router has just parsed a decision out of the model's reply
RouterDecided ==
    /\ prev_node = "delegator_logic"
    /\ model_reply.kind = "mapping"
    /\ {"agent", "action"} \subseteq DOMAIN model_reply.dict

\* the node that substring matching of the executor names gives for agent a
SubstringTarget(a) ==
    IF a = sEND THEN "END"
    ELSE IF contains(s_connector, lower(a)) THEN "call_connector_agent"
    ELSE IF contains(s_transformer, lower(a)) THEN "call_smart_transformer_agent"
    ELSE IF contains(s_bigquery, lower(a)) THEN "call_bigquery_agent"
    ELSE "delegator_logic"

\* C15: after a Router decision the executor is chosen by substring match of
\* the executor names in next_agent, and a name that matches none of them
\* and is not END re-enters delegator_logic; the run does not abort.
C15_SubstringRouting ==
    (RouterDecided /\ model_reply.dict.agent # s_conflict_resolver)
        => node = SubstringTarget(model_reply.dict.agent)

\* C16: a Router decision whose agent name carries the call_ prefix is
\* dispatched to the executor of the name without the prefix.
C16_PrefixStripped ==
    (RouterDecided
       /\ model_reply.dict.agent = <<"c","a","l","l","_">> \o s_connector_agent)
        => node = "call_connector_agent"

\* C17: after the Resolver the next node is the one resolution_flow names,
\* for every next_agent: the end of the run exactly for 'END', else the
\* connector, transformer or warehouse executor by the first of 'connector',
\* 'transformer', 'bigquery' that the lower-cased name contains, else
\* delegator_logic; the value is always a key of the Resolver's path map.
C17_ResolutionFlowTargets ==
    /\ resolution_flow(state) \in { p[1] : p \in resolver_path_map }
    /\ node # "resolution_flow"
         => (/\ node = SubstringTarget(next_agent)
             /\ node = "END" <=> next_agent = sEND)

C17_Witness ==
    /\ node = "call_connector_agent"
    /\ contains(s_transformer, lower(next_agent))
    /\ next_agent # lower(next_agent)

\* s is an initial part of t
IsPrefix(s, t) == Len(s) <= Len(t) /\ SubSeq(t, 1, Len(s)) = s

\* C18: user_request never changes; tasks_done and model_responses never
\* lose or change an entry; they grow only in an executor dispatch whose
\* response is classified as a success; delegator_logic and
\* conflict_resolver leave the three fields as they are.
C18_AppendOnly ==
    [][/\ state'["user_request"] = state["user_request"]
       /\ IsPrefix(tasks_done, tasks_done')
       /\ IsPrefix(model_responses, model_responses')
       /\ (tasks_done' # tasks_done \/ model_responses' # model_responses)
            => (DispatchStep /\ ~contains(s_ERROR, upper(executor_response')))
       /\ node \in {"delegator_logic", "conflict_resolver"}
            => (/\ tasks_done' = tasks_done
                /\ model_responses' = model_responses)]_vars

C18_Witness ==
    /\ Len(model_responses) = 2
    /\ model_responses[1] # model_responses[2]
    /\ Len(tasks_done) = 3
    /\ tasks_done[2] # tasks_done[3]
    /\ prev_node = "conflict_resolver"

\* C19: right after every successful executor dispatch, by any of the three
\* executors, error_details is the empty string.
C19_SuccessClearsDetail ==
    [][(DispatchStep /\ ~contains(s_ERROR, upper(executor_response')))
         => error_details' = <<>>]_vars

\* C20: the node that runs after an executor node is delegator_logic,
\* whether the dispatch succeeded or failed: never another executor, the
\* resolver or the end of the run.  (An agent whose invoke raises does not
\* complete the node: the run aborts with the state as it was.)
C20_ExecutorReturnsToRouter ==
    [][(node \in ExecutorNodes)
         => (node' = "delegator_logic"
               \/ (node' = "ABORT" /\ state' = state))]_vars

C20_Witness ==
    /\ prev_node = "call_bigquery_agent"
    /\ node = "delegator_logic"
    /\ dispatch_failed
    /\ has_error
    /\ Len(model_responses) = 1

\* the resolver proposes a corrected action: an executor node runs next
RecoveryProposes == ResolverResolves /\ node' \in ExecutorNodes

\* the dispatched action fails: back to the Router with the failure pending
RedispatchFails ==
    /\ CallSmartTransformerAgent \/ CallConnectorAgent \/ CallBigqueryAgent
    /\ dispatch_failed'
    /\ has_error'
    /\ model_responses' = model_responses
    /\ node' = "delegator_logic"

\* the Router hands the pending failure to the resolver
RecoveryHandsOver ==
    /\ DelegatorShortCircuit
    /\ node' = "conflict_resolver"
    /\ UNCHANGED <<dispatch_failed, executor_response>>
    /\ model_responses' = model_responses

\* termination, which C21 denies: every run reaches its end or aborts
Termination == <>(node \in {"END", "ABORT"})

SearchReturned == search.outcome = "returned"

\* C22: over n >= 1 executor outputs semantic_search returns min(2, n) of
\* them, each output at most once, in an order of non-increasing similarity
\* to the failure text, and no output left out is strictly more similar than
\* one that was selected.
C22_TopTwoBySimilarity ==
    SearchReturned =>
        LET n == Len(model_responses)
            idx == search.top_indices
            m == Len(idx)
        IN  /\ n >= 1
            /\ m = (IF n < 2 THEN n ELSE 2)
            /\ \A i \in 1..m : idx[i] \in 1..n
            /\ \A i, j \in 1..m : i # j => idx[i] # idx[j]
            /\ search.relevant_tasks = [i \in 1..m |-> model_responses[idx[i]]]
            /\ \A i, j \in 1..m :
                  i < j => similarities[idx[i]] >= similarities[idx[j]]
            /\ \A u \in 1..n :
                  (\A i \in 1..m : idx[i] # u)
                     => \A i \in 1..m : similarities[u] <= similarities[idx[i]]

\* three outputs, the most similar of them in the middle: it comes first,
\* the least similar is left out
C22_Witness ==
    /\ SearchReturned
    /\ similarities = <<1, 2, 0>>
    /\ search.top_indices = <<2, 1>>
    /\ model_responses[3] = <<"-">>

\* the resolver has outputs to search, and none of them holds a word
SearchMustFail ==
    /\ node = "conflict_resolver"
    /\ latest_model_response(state) # <<>>
    /\ \A i \in 1..Len(model_responses) : ~has_token(json_dumps(model_responses[i]))

\* C23: when the similarity index cannot be built (no output holds a word,
\* so the vocabulary is empty), conflict_resolver does not catch the failure:
\* the model is not asked, the state is not changed (no forced END, no
\* decision), and the run aborts.
C23_SearchFailurePropagates ==
    /\ [][SearchMustFail
            => (/\ search'.outcome = "raised"
                /\ model_reply' = NoReply
                /\ state' = state
                /\ node' = "ABORT")]_vars
    /\ [][search'.outcome = "raised" => node' = "ABORT"]_vars

C23_Witness ==
    /\ node = "ABORT"
    /\ prev_node = "conflict_resolver"
    /\ search.outcome = "raised"
    /\ model_responses = << <<"-">>, <<"-">> >>
    /\ next_agent = s_conflict_resolver

AtStart == prev_node = "START"

\* C25 as stated: a run starts in delegator_logic with empty tasks_done,
\* empty model_responses and has_error false.
C25_StartsEmpty ==
    AtStart => (/\ node = "delegator_logic"
                /\ tasks_done = <<>>
                /\ model_responses = <<>>
                /\ ~has_error)

\* C25 as amended: a run starts in delegator_logic with model_responses
\* empty, has_error false, no error_details, and tasks_done holding one
\* entry, the empty dict; that entry stays the first of tasks_done, which
\* is therefore always one longer than model_responses.
C25_StartsWithPlaceholder ==
    /\ AtStart => (/\ node = "delegator_logic"
                   /\ Len(tasks_done) = 1
                   /\ model_responses = <<>>
                   /\ ~has_error
                   /\ "error_details" \notin DOMAIN state)
    /\ DOMAIN tasks_done[1] = {}
    /\ Len(tasks_done) = Len(model_responses) + 1

C25_Witness ==
    /\ AtStart
    /\ node = "delegator_logic"
    /\ Len(tasks_done) = 1
    /\ DOMAIN tasks_done[1] = {}
    /\ state["has_error"] = FALSE

\* the letters E, R, R, O, R, in either case, stand at positions i..i+4
TokenAt(text, i) ==
    \A k \in 1..Len(s_ERROR) :
        text[i + k - 1] = s_ERROR[k] \/ text[i + k - 1] = lower_char(s_ERROR[k])

\* an executor node has just run
Dispatched == prev_node \in ExecutorNodes /\ node = "delegator_logic"

\* C26: each of the three executors treats a dispatch as failed exactly when
\* the response holds the letters of ERROR, in either case, at some position:
\* then it sets has_error and records nothing; otherwise it records the step
\* and the output.
C26_FailureIffErrorToken ==
    Dispatched =>
        LET token == \E i \in 1..(Len(executor_response) - Len(s_ERROR) + 1) :
                         TokenAt(executor_response, i)
        IN  /\ has_error <=> token
            /\ token => (/\ Len(tasks_done) = 1
                         /\ model_responses = <<>>
                         /\ error_details = executor_response)
            /\ ~token => (Len(tasks_done) = 2 /\ Len(model_responses) = 1)

\* the token in lower case at the end of the text
C26_Witness ==
    /\ Dispatched
    /\ prev_node = "call_bigquery_agent"
    /\ executor_response = <<"o","k","e","r","r","o","r">>
    /\ has_error

\* run_workflow has answered
WorkflowAnswered == call.function = "run_workflow" /\ returned.kind # "none"

\* C27 as stated: run_workflow hands the caller a result whose status tells
\* whether the run reached END: a WorkflowResponse with status 'completed'
\* or 'incomplete', with the completed tasks and the final error_details.
C27_ResultTellsCompletion ==
    WorkflowAnswered
        => (/\ returned.kind = "WorkflowResponse"
            /\ returned.status \in {"completed", "incomplete"}
            /\ returned.status = "completed" <=> returned.final_agent = sEND)

\* upload_file or download_file has returned or raised
GcsAnswered ==
    call.function \in {"upload_file", "download_file"} /\ returned.kind # "none"

\* the source of the transfer is there: the local path of an upload, the
\* blob of a download (neither call removes its source)
SourcePresent ==
    IF call.function = "upload_file"
    THEN path_exists(world, call.source_file_path)
    ELSE call.filename \in world.blobs

\* what the call returns when it has made its transfer
Destination ==
    IF call.function = "upload_file" THEN gs_uri(call.dest_blob_name)
    ELSE IF "dest_path" \in DOMAIN call THEN call.dest_path
    ELSE default_dest_path(call.filename)

\* the transfer itself raised: the storage client failed
TransferRaised ==
    returned \in {Raised("upload_from_filename"), Raised("download_to_filename")}

\* C28 as stated, for a storage client whose transfers succeed: with the
\* source missing the call returns a text holding ERROR and makes no
\* transfer; otherwise it makes exactly one transfer and returns the gs://
\* URI (upload) or the local destination path (download).
C28_NoTransferWithoutSource ==
    (GcsAnswered /\ ~TransferRaised) =>
        IF ~SourcePresent
        THEN /\ returned.kind = "str"
             /\ contains(s_ERROR, returned.text)
             /\ client_calls = <<>>
        ELSE /\ Len(client_calls) = 1
             /\ returned = Str(Destination)

\* create_dataset or create_table has made its client call
BigQueryCalled ==
    call.function \in {"create_dataset", "create_table"} /\ Len(client_calls) = 1

\* the id of what was to be created
CreatedId == IF call.function = "create_table" THEN call.table_id ELSE call.dataset_id

\* the text the two methods return after the client call succeeded
CreatedMessage ==
    IF call.function = "create_table"
    THEN <<"T","a","b","l","e"," ">> \o call.table_id
           \o <<" ","c","r","e","a","t","e","d"," ","i","n"," ","d","a","t","a","s","e","t"," ">>
           \o call.dataset_id \o <<".">>
    ELSE <<"D","a","t","a","s","e","t"," ">> \o call.dataset_id
           \o <<" ","c","r","e","a","t","e","d",".">>

\* C29: create_dataset and create_table do not raise when the client call
\* fails: they return a text that holds ERROR and the id of the dataset or
\* table; when the client call succeeds they return exactly the success
\* message that ends in 'created.' (create_dataset) or names the dataset
\* (create_table).
C29_ClientFailureReturnedInBand ==
    BigQueryCalled =>
        /\ returned.kind = "str"
        /\ client_calls[1].raised # <<>>
             => (/\ contains(s_ERROR, returned.text)
                 /\ contains(CreatedId, returned.text)
                 /\ contains(client_calls[1].raised, returned.text))
        /\ client_calls[1].raised = <<>> => returned.text = CreatedMessage

\* create_table refused because the dataset is not there
C29_Witness ==
    /\ BigQueryCalled
    /\ call.function = "create_table"
    /\ call.dataset_id \notin world.datasets
    /\ client_calls[1].raised = s_not_found
    /\ returned.kind = "str"
    /\ contains(s_ERROR, returned.text)

\* the run has ended and its last dispatch had failed
EndedAfterFailure == node = "END" /\ dispatch_failed

\* C30 as stated: when a run ends with no successful dispatch after its last
\* failing one, the final state carries that failure: error_details is the
\* raw output of the failing dispatch.
C30_FinalStateCarriesFailure ==
    EndedAfterFailure => error_details = executor_response

\* the two States show the Router the same: request, completed steps and
\* the last two executor outputs
SameToRouter ==
    /\ state["user_request"] = call.state["user_request"]
    /\ state["tasks_done"] = call.state["tasks_done"]
    /\ \A k \in 0..1 :
          k < Len(model_responses)
             => model_responses[Len(model_responses) - k]
                  = call.state["model_responses"][Len(model_responses) - k]

\* C31: two States with has_error false that agree on user_request, on
\* tasks_done and on the last two entries of model_responses give
\* delegator_logic the same prompt and, the model being a deterministic
\* stand-in, the same decision (or the same failure to parse), whatever
\* their older outputs, next_agent, next_task and error_details are.
C31_DecisionFromShownFieldsOnly ==
    (Len(decisions) = 2 /\ ~has_error /\ ~get(call.state, "has_error", FALSE)
        /\ SameToRouter)
       => (/\ prompt(state) = prompt(call.state)
           /\ decisions[1].raised = decisions[2].raised
           /\ ~decisions[1].raised
                => (/\ decisions[1].next_agent = decisions[2].next_agent
                    /\ decisions[1].next_task = decisions[2].next_task))

\* the States differ in an older output, in next_agent and in
\* error_details, and the Router decided the same for both
C31_Witness ==
    /\ Len(decisions) = 2
    /\ SameToRouter
    /\ Len(model_responses) = 3
    /\ model_responses[1] # call.state["model_responses"][1]
    /\ next_agent # call.state["next_agent"]
    /\ error_details # <<>>
    /\ get(call.state, "error_details", <<>>) # error_details
    /\ ~decisions[2].raised
    /\ decisions[2].next_agent # call.state["next_agent"]

\* C32: whenever one of the three executor nodes is entered, has_error is
\* false: a failure left by a dispatch is cleared by delegator_logic before
\* anything else runs, and conflict_resolver never sets the flag.
C32_NoDispatchWhileFailurePending ==
    (node \in ExecutorNodes) => ~has_error

\* an executor is entered from conflict_resolver, which was reached after a
\* failed dispatch, and the flag is down
C32_Witness ==
    /\ node \in ExecutorNodes
    /\ prev_node = "conflict_resolver"
    /\ resolver_entries > 0
    /\ "has_error" \in DOMAIN state
    /\ ~has_error

\* the key an executor node records its task under (lines 233, 252, 271)
RecordedKey(n) ==
    IF n = "call_bigquery_agent" THEN "bigquery_agent" ELSE n

\* the text an executor node puts before its agent's output (lines 234,
\* 253, 272)
RecordedPrefix(n) ==
    CASE n = "call_smart_transformer_agent" -> s_transformer_prefix
      [] n = "call_connector_agent" -> s_connector_prefix
      [] n = "call_bigquery_agent" -> s_bigquery_prefix

\* C33: tasks_done and model_responses stay in step. In every state as many
\* entries were appended to tasks_done (after the entry the run starts
\* with) as to model_responses; a step either leaves both lists alone or is
\* a dispatch that appends one entry to each, the task it was given under
\* the executor's key and the agent's output under the executor's prefix,
\* so the i-th appended task and the i-th appended output come from the
\* same dispatch.
C33_ListsInStep ==
    [][/\ Len(tasks_done) - 1 = Len(model_responses)
       /\ Len(tasks_done') - 1 = Len(model_responses')
       /\ \/ /\ tasks_done' = tasks_done
             /\ model_responses' = model_responses
          \/ /\ DispatchStep
             /\ tasks_done' = Append(tasks_done, (RecordedKey(node) :> next_task))
             /\ model_responses'
                  = Append(model_responses, RecordedPrefix(node) \o executor_response')]_vars

\* two dispatches of different executors succeeded, each leaving its pair
C33_Witness ==
    /\ Len(model_responses) = 2
    /\ Len(tasks_done) = 3
    /\ DOMAIN tasks_done[2] # DOMAIN tasks_done[3]
    /\ \E n \in ExecutorNodes :
          /\ DOMAIN tasks_done[3] = {RecordedKey(n)}
          /\ prev_node = n
          /\ model_responses[2] = RecordedPrefix(n) \o executor_response

\* the client's query raised
QueryRaised ==
    /\ returned # NotReturned
    /\ client_calls # <<>>
    /\ client_calls[1].method = "query"
    /\ client_calls[1].raised # NoException

\* C34: whenever the BigQuery client's query raises, execute_bigquery_query
\* returns a text that begins with ERROR and is not the 'Query executed
\* successfully' message.
C34_FailedQueryReportedInBand ==
    QueryRaised
       => (/\ returned.kind = "str"
           /\ startswith(returned.text, s_ERROR)
           /\ ~contains(<<"Q","u","e","r","y"," ","e","x","e","c","u","t","e","d"," ","s","u","c","c","e","s","s","f","u","l","l","y">>, returned.text))

\* the bucket did not exist, its creation was asked for and failed
CreationFailed ==
    /\ returned # NotReturned
    /\ call.function = "load_data_to_gcp"
    /\ call.create_new_bucket
    /\ client_calls # <<>>
    /\ client_calls[1].method = "create_bucket"
    /\ client_calls[1].raised # NoException

\* C35: when the bucket does not exist, create_new_bucket is true and
\* GCPSource.create_bucket fails, load_data_to_gcp returns the 'ERROR:
\* Bucket Creation Failed' message, does not raise and makes no upload.
C35_NoUploadAfterFailedCreation ==
    CreationFailed
       => (/\ returned = Str(bucket_creation_failed)
           /\ \A i \in 1..Len(client_calls) :
                 client_calls[i].method # "upload_from_filename")

\* the keywords the generated code must not hold
ForbiddenKeywords ==
    { <<"i","m","p","o","r","t">>,
      <<"e","x","e","c">>,
      <<"e","v","a","l">>,
      <<"o","p","e","n">>,
      <<"_","_">>,
      <<"o","s",".">>,
      <<"s","y","s",".">>,
      <<"s","u","b","p","r","o","c","e","s","s">>,
      <<"c","o","m","p","i","l","e">> }

\* the code of the model's reply, as it would be run, holds a forbidden
\* keyword in any mix of cases
HoldsForbiddenKeyword(reply) ==
    /\ reply.kind = "code"
    /\ \E keyword \in ForbiddenKeywords :
          contains(keyword, lower(clean_markdown(strip(reply.content))))

\* C36: when the generated code holds a forbidden keyword (import, exec,
\* eval, open, __, os., sys., subprocess, compile, in any mix of cases),
\* generate_pandas_logic returns the 'Forbidden operation' message without
\* running the code: no file is written, no backup is made, and the
\* message is one the executors classify as a failure.
C36_ForbiddenCodeNeverRuns ==
    [][(returned' # NotReturned /\ HoldsForbiddenKeyword(model_reply'))
         => (/\ returned'.kind = "str"
             /\ contains(<<"F","o","r","b","i","d","d","e","n"," ","o","p","e","r","a","t","i","o","n">>, returned'.text)
             /\ world' = world
             /\ is_error(returned'.text))]_vars

\* the model wrote Import with a capital and the tool refused to run it
C36_Witness ==
    /\ returned # NotReturned
    /\ model_reply.kind = "code"
    /\ contains(<<"I","m","p","o","r","t">>, model_reply.content)
    /\ returned = Str(forbidden_operation(<<"i","m","p","o","r","t">>))
    /\ \A f \in world.files : f \in InputFilenames

\* C37: when generate_pandas_logic returns its success message, the backup
\* file named in it holds what the input file held before the call, for
\* every input_filename and output_filename, the two being equal included.
C37_BackupHoldsOriginal ==
    [][(\E o \in OutputFilenames, t \in Timestamps :
           returned' = Str(transformed_message(
                               o, backup_path_of(t, call.input_filename))))
         => (\E t \in Timestamps :
                LET backup_path == backup_path_of(t, call.input_filename)
                IN  /\ contains(backup_path, returned'.text)
                    /\ backup_path \in world'.files
                    /\ world'.content[backup_path]
                         = world.content[call.input_filename])]_vars

====
